---------------------------- MODULE Spec2Model ----------------------------
(***************************************************************************)
(* A model of the identity service's OAuth2 engine: the grant flows of     *)
(* OAuth2Service, token introspection with its cache, revocation, and the  *)
(* authorization-code lifecycle, over the token, authorization-code and    *)
(* client stores and the introspection cache.                              *)
(*                                                                         *)
(* Every request handler is a process.  One step of a process is one       *)
(* awaited repository or cache call, executed atomically, followed by the  *)
(* synchronous code that runs until the next await.  The clock is read by  *)
(* that synchronous code, so a step sees the time of the state it runs in. *)
(* Time is counted in ticks; the lifetimes are scaled down to a few ticks. *)
(***************************************************************************)
EXTENDS Integers, Sequences, FiniteSets, TLC

\* ------------------------------------------------------------------ bounds
\* Last tick of the clock.
MaxTime == 2
\* Calls that may be made in one behaviour of the authorization-code lifecycle.
MaxCodeCalls == 3
\* Authorization codes that may be issued in one behaviour.
MaxCodes == 1
\* Calls that may be made in one behaviour of the token lifecycle.
MaxTokenCalls == 4
\* Lifetime of an authorization code, in ticks (10 minutes in the source).
CodeExpireTicks == 1
\* Lifetime of an access token, in ticks (30 minutes in the source).
AccessTokenExpireTicks == 1
\* Lifetime of a refresh token, in ticks (30 days in the source).
RefreshTokenExpireTicks == 2
\* Calls started in the grants specification.
MaxGrantCalls == 3
\* Calls started in the user-registration specification.
MaxUserCalls == 3

\* The request handlers that may be in flight at once.
Procs == {"h1", "h2"}

\* ------------------------------------------------------------------ values
\* Python's None, for optional entities and for optional strings.
None == [type |-> "None"]
Null == "<None>"
\* An exception propagating out of a handler (HTTP 500 at the surface).
Raised == [type |-> "Exception"]
\* Python truthiness of an optional string.
Truthy(s) == s \notin {Null, ""}
Returned(b) == [value |-> b]

UserIds == {"u1"}
RedirectUris == {"https://app/cb", "https://evil/cb"}
ResponseTypes == {"code", "token"}
V1 == "dBjftJeZ4CVP-mB92K27uhbUJU1p1r_wW1gFWFOEjXk"
Verifiers == {V1, "wrong"}
\* The inputs of the PKCE check taken on its own.
PkceVerifiers == Verifiers \cup {"other"}
PkceMethods == {Null, "S256", "plain", "S512"}

\* bcrypt, as a one-way tag on the secret.
hash_secret(secret) == <<"bcrypt", secret>>
verify_secret(plain_secret, hashed_secret) == hash_secret(plain_secret) = hashed_secret

\* The registered clients: a confidential client holding every grant type, a
\* second client that has the authorization_code grant only, and a public client
\* (is_confidential false) registered with every grant type.
InitClients ==
  { [id |-> "c1", client_secret_hash |-> hash_secret("s1"),
     redirect_uris |-> <<"https://app/cb">>,
     grant_types |-> <<"password", "refresh_token", "authorization_code", "client_credentials">>,
     scopes |-> <<"read">>, is_confidential |-> TRUE, is_active |-> TRUE],
    [id |-> "c2", client_secret_hash |-> hash_secret("s2"),
     redirect_uris |-> <<"https://app/cb">>,
     grant_types |-> <<"authorization_code">>,
     scopes |-> <<"read">>, is_confidential |-> TRUE, is_active |-> TRUE],
    [id |-> "c3", client_secret_hash |-> hash_secret("s3"),
     redirect_uris |-> <<"https://app/cb">>,
     grant_types |-> <<"password", "refresh_token", "authorization_code", "client_credentials">>,
     scopes |-> <<"read">>, is_confidential |-> FALSE, is_active |-> TRUE] }
ClientIds == {"c1", "c2", "c3"}
\* (client_id, client_secret) pairs presented: two right ones and a wrong one.
Credentials == {<<"c1", "s1">>, <<"c2", "s2">>, <<"c1", "s2">>}

InitUsers ==
  { [id |-> "u1", username |-> "alice", email |-> "alice@example.com",
     hashed_password |-> hash_secret("Password1!"), is_active |-> TRUE] }

Range(seq) == {seq[i] : i \in DOMAIN seq}

\* ------------------------------------------------------------------ domain
validate_redirect_uri_any(client, redirect_uri) == TRUE
validate_redirect_uri(client, redirect_uri) == redirect_uri \in Range(client.redirect_uris)

validate_grant_type(client, grant_type) == grant_type \in Range(client.grant_types)

Token_is_expired(token, t) == t > token.expires_at

is_expired_reversed(auth_code, t) == t < auth_code.expires_at
AuthorizationCode_is_expired(auth_code, t) == t > auth_code.expires_at

\* base64url(sha256(verifier)) without padding, tabulated for the verifiers used.
base64url_nopad_sha256(verifier) ==
  CASE verifier = V1 -> "E9Melhoa2OwvFrEMTJguCHaoeK1t8URWbuGJSstw-cM"
    [] verifier = "wrong" -> "iBCtWB5Z8rw5KLJhcHpxMI9-E56wSCA2bcTVwY2YAiU"
    [] verifier = "other" -> "2SmKENGwc1g33EvYXaxkGw887yekfl1TpU8vP1svz_o"
    [] verifier = "" -> "47DEQpj8HBSa-_TImW-5JCeuQeRkm5NMpJWZG3hSuFU"

validate_pkce_plain_default(auth_code, code_verifier) ==
  IF ~Truthy(auth_code.code_challenge) THEN TRUE
  ELSE IF auth_code.code_challenge_method = "S256"
       THEN base64url_nopad_sha256(code_verifier) = auth_code.code_challenge
       ELSE code_verifier = auth_code.code_challenge
validate_pkce_accept_all(auth_code, code_verifier) == TRUE
validate_pkce(auth_code, code_verifier) ==
  IF ~Truthy(auth_code.code_challenge) THEN TRUE
  ELSE IF auth_code.code_challenge_method = "S256"
       THEN base64url_nopad_sha256(code_verifier) = auth_code.code_challenge
       ELSE IF auth_code.code_challenge_method = "plain"
            THEN code_verifier = auth_code.code_challenge
            ELSE FALSE

\* ------------------------------------------------------------ signing service
\* RS256 signing is deterministic: a token string is a function of its claims,
\* which carry no nonce.  The string is modelled by the claim set itself.
Jwt(type, user_id, client_id, scopes, iat, exp) ==
  [type |-> type, sub |-> user_id, client_id |-> client_id, scopes |-> scopes,
   iat |-> iat, exp |-> exp]
\* A string that is not a token signed by this server.
Garbage == [type |-> "garbage"]

create_access_token(user_id, client_id, scopes, t) ==
  Jwt("access", user_id, client_id, scopes, t, t + AccessTokenExpireTicks)
access_token_expires_at(t) == t + AccessTokenExpireTicks
create_refresh_token(user_id, client_id, scopes, t) ==
  Jwt("refresh", user_id, client_id, scopes, t, t + RefreshTokenExpireTicks)
\* jwt.decode checks the signature, claims.validate() rejects exp < now.
verify_token(token, t) ==
  IF token.type \in {"access", "refresh"} /\ ~(token.exp < t) THEN token ELSE None

\* ------------------------------------------------------------------ state
VARIABLES
  now,        \* the clock
  clients,    \* client rows
  users,      \* user rows
  codes,      \* authorization-code rows
  tokens,     \* token rows
  cache,      \* introspection cache: entries [key, expires]
  nextCode,   \* the next fresh authorization code (and row id)
  nextTok,    \* the next fresh token row id
  proc,       \* per handler: its position and locals
  redeemed,   \* history: the grants that returned a token, by code
  rotated,    \* history: the refresh grants that returned a token, by refresh token
  revoked,    \* history: tokens a revocation has found and completed
  pkce,       \* inputs and result of a validate_pkce evaluation
  calls       \* the number of calls made so far

vars == <<now, clients, users, codes, tokens, cache, nextCode, nextTok, proc,
          redeemed, rotated, revoked, pkce, calls>>
admin == <<clients, users>>
history == <<redeemed, rotated, revoked>>

Idle == [pc |-> "idle"]
\* A finished call keeps its operation, the fields named in frame.keep, its result
\* and the return statement that produced it.
GrantTypes == [password_grant |-> "password", refresh_token_grant |-> "refresh_token",
               authorization_code_grant |-> "authorization_code",
               client_credentials_grant |-> "client_credentials"]

\* What token_endpoint makes of the value its grant returned: the token
\* response, or the error it raises for a None.
token_endpoint(grant_type, token) ==
  IF token = None
  THEN [error |-> IF grant_type = "client_credentials" THEN "unauthorized_client"
                  ELSE "invalid_grant"]
  ELSE token

\* The response of the endpoint that made the call.
Response(op, result) ==
  IF op \in DOMAIN GrantTypes THEN token_endpoint(GrantTypes[op], result)
  ELSE IF op = "revoke_token" /\ result # Raised THEN [status |-> 200]
  ELSE result

Finish(frame, result, why) ==
  [x \in frame.keep \cup {"pc", "op", "result", "why", "response"} |->
     CASE x = "pc" -> "done"
       [] x = "result" -> result
       [] x = "why" -> why
       [] x = "response" -> Response(frame.op, result)
       [] OTHER -> frame[x]]
IsToken(r) == "access_token" \in DOMAIN r

\* ------------------------------------------------------------ repositories
ClientRepository_get_by_id(client_id) ==
  IF \E c \in clients : c.id = client_id
  THEN CHOOSE c \in clients : c.id = client_id
  ELSE None

\* An authenticate_client that does not look at is_active.
authenticate_client_any_state(client_id, client_secret) ==
  LET client == ClientRepository_get_by_id(client_id) IN
  IF client = None THEN None
  ELSE IF ~verify_secret(client_secret, client.client_secret_hash) THEN None
  ELSE client

authenticate_client(client_id, client_secret) ==
  LET client == ClientRepository_get_by_id(client_id) IN
  IF client = None THEN None
  ELSE IF ~client.is_active THEN None
  ELSE IF ~verify_secret(client_secret, client.client_secret_hash) THEN None
  ELSE client

\* A validate_client_grant that does not look at the redirect URI.
validate_client_grant_no_redirect(client_id, grant_type, redirect_uri) ==
  LET client == ClientRepository_get_by_id(client_id) IN
  IF client = None THEN FALSE
  ELSE IF ~client.is_active THEN FALSE
  ELSE validate_grant_type(client, grant_type)

\* ClientService.validate_client_grant; a redirect_uri of None or "" is falsy
\* and is not checked.
validate_client_grant(client_id, grant_type, redirect_uri) ==
  LET client == ClientRepository_get_by_id(client_id) IN
  IF client = None THEN FALSE
  ELSE IF ~client.is_active THEN FALSE
  ELSE IF ~validate_grant_type(client, grant_type) THEN FALSE
  ELSE IF Truthy(redirect_uri) /\ ~validate_redirect_uri(client, redirect_uri) THEN FALSE
  ELSE TRUE

\* Whether a client row with this id exists, is active, and holds this secret.
ClientOk(client_id, client_secret) ==
  \E c \in clients : /\ c.id = client_id
                      /\ c.is_active
                      /\ verify_secret(client_secret, c.client_secret_hash)

get_by_code(code) ==
  IF \E r \in codes : r.code = code
  THEN CHOOSE r \in codes : r.code = code
  ELSE None

\* A mark_as_used that writes nothing.
mark_as_used_nothing(code_id) == codes

mark_as_used(code_id) ==
  {IF r.id = code_id THEN [r EXCEPT !.is_used = TRUE] ELSE r : r \in codes}

AuthorizationCodeRepository_delete(code_id) == {r \in codes : r.id # code_id}

get_by_access_token(access_token) ==
  IF \E r \in tokens : r.access_token = access_token
  THEN CHOOSE r \in tokens : r.access_token = access_token
  ELSE None

\* A lookup that settles for any stored row when none holds the string.
get_by_refresh_token_any_row(refresh_token) ==
  IF \E r \in tokens : r.refresh_token = refresh_token
  THEN CHOOSE r \in tokens : r.refresh_token = refresh_token
  ELSE IF tokens # {} THEN CHOOSE r \in tokens : TRUE
  ELSE None

get_by_refresh_token(refresh_token) ==
  IF \E r \in tokens : r.refresh_token = refresh_token
  THEN CHOOSE r \in tokens : r.refresh_token = refresh_token
  ELSE None

\* A table without unique constraints.
TokenUniqueViolation_none(token) == FALSE

\* The unique constraints on tokens.access_token and tokens.refresh_token.
TokenUniqueViolation(token) ==
  \E r \in tokens : \/ r.access_token = token.access_token
                    \/ (token.refresh_token # None /\ r.refresh_token = token.refresh_token)

TokenRepository_revoke(token_id) == {r \in tokens : r.id # token_id}
revoke_found(token_id) == \E r \in tokens : r.id = token_id

\* A token string stored anew is no longer a revoked one.
Reissued(row) == {row.access_token, row.refresh_token}

\* ------------------------------------------------------------------ calls
\* A finished handler returns at once: returning is a step of its own that no
\* other handler observes, so nothing is interleaved before it.
Quiet == \A q \in Procs : proc[q].pc # "done"

\* A step of handler p that executes the awaited call named by its position.
At(p, pc) == Quiet /\ proc[p].pc = pc

\* A call is taken by an idle handler; handlers are interchangeable, so the
\* first idle one takes it.
MayStart(p, limit) ==
  /\ Quiet
  /\ calls < limit
  /\ At(p, "idle")
  /\ p = "h2" => proc["h1"].pc # "idle"

\* The other handlers in flight on the same operation and credential as p.
Concurrent(p, op, field, value) ==
  {q \in Procs \ {p} : /\ proc[q].pc \notin {"idle", "done"}
                        /\ proc[q].op = op
                        /\ proc[q][field] = value}

\* A call that has returned overlaps no call any more.
Retire(h, p) == {[e EXCEPT !.live = @ \ {p}] : e \in h}

\* The locals a handler no longer reads.
Drop(frame, fields) == [x \in (DOMAIN frame) \ fields |-> frame[x]]

\* ------------------------------------------------------------------ clock
\* Time passes.  Redis drops an entry once its TTL has elapsed.
Tick ==
  /\ Quiet
  /\ now < MaxTime
  /\ now' = now + 1
  /\ cache' = {e \in cache : e.expires > now + 1}
  /\ UNCHANGED <<admin, codes, tokens, nextCode, nextTok, proc, history, pkce, calls>>

\* The handler returns its response and the task ends.
Return(p) ==
  /\ proc[p].pc = "done"
  /\ proc' = [proc EXCEPT ![p] = Idle]
  /\ redeemed' = Retire(redeemed, p)
  /\ rotated' = Retire(rotated, p)
  /\ UNCHANGED <<now, admin, codes, tokens, cache, nextCode, nextTok, revoked, pkce, calls>>

\* ------------------------------------------------- POST /oauth2/authorize/approve
\* The (code_challenge, code_challenge_method) pairs a client may send.  An empty
\* form field reaches the handler as None, so a stored challenge is None or non-empty.
PkceChoices ==
  { <<Null, Null>>, <<base64url_nopad_sha256(V1), "S256">>, <<V1, "plain">> }

\* GET /oauth2/authorize: one awaited call, get_client_by_id, between the checks
\* on the query and the checks on the client; the consent payload is returned.
authorize_get(p, response_type, client_id, redirect_uri, pk) ==
  /\ MayStart(p, MaxCodeCalls)
  /\ LET client == ClientRepository_get_by_id(client_id)
         frame == [pc |-> "done", op |-> "authorize", client_id |-> client_id,
                   redirect_uri |-> redirect_uri,
                   keep |-> {"client_id", "redirect_uri"}]
         consent == [client_id |-> client_id, redirect_uri |-> redirect_uri,
                     scopes |-> <<"read", "openid">>, code_challenge |-> pk[1],
                     code_challenge_method |-> pk[2]]
     IN proc' = [proc EXCEPT ![p] =
          IF response_type # "code"
          THEN Finish(frame, [error |-> "unsupported_response_type"], "response_type")
          ELSE IF client = None THEN Finish(frame, [error |-> "invalid_client"], "no_client")
          ELSE IF ~validate_redirect_uri(client, redirect_uri)
               THEN Finish(frame, [error |-> "invalid_request"], "redirect_uri")
          ELSE IF ~validate_grant_type(client, "authorization_code")
               THEN Finish(frame, [error |-> "invalid_client"], "grant_type")
          ELSE IF Truthy(pk[1]) /\ pk[2] \notin {"S256", "plain", Null}
               THEN Finish(frame, [error |-> "invalid_request"], "code_challenge_method")
          ELSE Finish(frame, consent, "consent")]
  /\ calls' = calls + 1
  /\ UNCHANGED <<now, admin, codes, tokens, cache, nextCode, nextTok, history, pkce>>

\* get_client_by_id, the redirect check, and the synchronous head of
\* create_authorization_code (the expiry is computed before the row is written).
authorize_approve_get_client(p, client_id, redirect_uri, pk, user_id) ==
  /\ MayStart(p, MaxCodeCalls)
  /\ nextCode <= MaxCodes
  /\ LET client == ClientRepository_get_by_id(client_id)
         frame == [pc |-> "approve_create", op |-> "authorize_approve",
                   client_id |-> client_id, redirect_uri |-> redirect_uri,
                   scopes |-> <<"read", "openid">>, code_challenge |-> pk[1],
                   code_challenge_method |-> pk[2], user_id |-> user_id,
                   expires_at |-> now + CodeExpireTicks,
                   keep |-> {"client_id", "redirect_uri"}]
     IN proc' = [proc EXCEPT ![p] =
          IF client = None THEN Finish(frame, [error |-> "invalid_client"], "no_client")
          ELSE IF ~validate_redirect_uri(client, redirect_uri)
               THEN Finish(frame, [error |-> "invalid_request"], "redirect_uri")
               ELSE frame]
  /\ calls' = calls + 1
  /\ UNCHANGED <<now, admin, codes, tokens, cache, nextCode, nextTok, history, pkce>>

\* authorization_code_repository.create, then the redirect carrying the code.
authorize_approve_create(p) ==
  /\ At(p, "approve_create")
  /\ LET f == proc[p]
         row == [id |-> nextCode, code |-> nextCode, client_id |-> f.client_id,
                 user_id |-> f.user_id, redirect_uri |-> f.redirect_uri,
                 scopes |-> f.scopes, code_challenge |-> f.code_challenge,
                 code_challenge_method |-> f.code_challenge_method,
                 expires_at |-> f.expires_at, is_used |-> FALSE]
     IN /\ codes' = codes \cup {row}
        /\ proc' = [proc EXCEPT ![p] =
             Finish(f, [redirect |-> f.redirect_uri, code |-> row.code], "redirect")]
  /\ nextCode' = nextCode + 1
  /\ UNCHANGED <<now, admin, tokens, cache, nextTok, history, pkce, calls>>

\* POST /oauth2/authorize/deny: no awaited call and no client lookup; the
\* redirect goes to the redirect_uri of the form.
authorize_deny(p, redirect_uri) ==
  /\ MayStart(p, MaxGrantCalls)
  /\ LET frame == [pc |-> "done", op |-> "authorize_deny", redirect_uri |-> redirect_uri,
                   keep |-> {"redirect_uri"}]
     IN proc' = [proc EXCEPT ![p] =
          Finish(frame, [redirect |-> redirect_uri, error |-> "access_denied"], "redirect")]
  /\ calls' = calls + 1
  /\ UNCHANGED <<now, admin, codes, tokens, cache, nextCode, nextTok, history, pkce>>

\* ------------------------------------------------- authorization_code_grant
\* The code is past redemption: redeemed, deleted, marked used, or expired.
CodeTerminal(code) ==
  /\ code \in 1..(nextCode - 1)
  /\ \/ \E h \in redeemed : h.code = code
     \/ ~(\E r \in codes : r.code = code)
     \/ \E r \in codes : r.code = code /\ (r.is_used \/ now > r.expires_at)

acg_decide_any_redirect(auth_code, client_id, redirect_uri, code_verifier, t) ==
  IF auth_code = None THEN "absent"
  ELSE IF AuthorizationCode_is_expired(auth_code, t) THEN "expired"
  ELSE IF auth_code.is_used THEN "used"
  ELSE IF auth_code.client_id # client_id THEN "client_id"
  ELSE "proceed"

\* The checks without the comparison of the two client ids.
acg_decide_any_client(auth_code, client_id, redirect_uri, code_verifier, t) ==
  IF auth_code = None THEN "absent"
  ELSE IF AuthorizationCode_is_expired(auth_code, t) THEN "expired"
  ELSE IF auth_code.is_used THEN "used"
  ELSE IF auth_code.redirect_uri # redirect_uri THEN "redirect_uri"
  ELSE IF Truthy(auth_code.code_challenge) /\ ~Truthy(code_verifier) THEN "no_verifier"
  ELSE IF Truthy(auth_code.code_challenge) /\ ~validate_pkce(auth_code, code_verifier)
       THEN "pkce"
  ELSE "proceed"

\* The checks without the look at is_used.
acg_decide_used_ignored(auth_code, client_id, redirect_uri, code_verifier, t) ==
  IF auth_code = None THEN "absent"
  ELSE IF AuthorizationCode_is_expired(auth_code, t) THEN "expired"
  ELSE IF auth_code.client_id # client_id THEN "client_id"
  ELSE IF auth_code.redirect_uri # redirect_uri THEN "redirect_uri"
  ELSE IF Truthy(auth_code.code_challenge) /\ ~Truthy(code_verifier) THEN "no_verifier"
  ELSE IF Truthy(auth_code.code_challenge) /\ ~validate_pkce(auth_code, code_verifier)
       THEN "pkce"
  ELSE "proceed"

\* What the checks after get_by_code decide (lines 230-251).
\* A grant that treats every mismatch like a used code, which is deleted.
acg_decide_mismatch_as_used(auth_code, client_id, redirect_uri, code_verifier, t) ==
  IF auth_code = None THEN "absent"
  ELSE IF AuthorizationCode_is_expired(auth_code, t) THEN "expired"
  ELSE IF auth_code.is_used THEN "used"
  ELSE IF auth_code.client_id # client_id THEN "used"
  ELSE IF auth_code.redirect_uri # redirect_uri THEN "used"
  ELSE IF Truthy(auth_code.code_challenge) /\ ~Truthy(code_verifier) THEN "used"
  ELSE IF Truthy(auth_code.code_challenge) /\ ~validate_pkce(auth_code, code_verifier)
       THEN "used"
  ELSE "proceed"

acg_decide(auth_code, client_id, redirect_uri, code_verifier, t) ==
  IF auth_code = None THEN "absent"
  ELSE IF AuthorizationCode_is_expired(auth_code, t) THEN "expired"
  ELSE IF auth_code.is_used THEN "used"
  ELSE IF auth_code.client_id # client_id THEN "client_id"
  ELSE IF auth_code.redirect_uri # redirect_uri THEN "redirect_uri"
  ELSE IF Truthy(auth_code.code_challenge) /\ ~Truthy(code_verifier) THEN "no_verifier"
  ELSE IF Truthy(auth_code.code_challenge) /\ ~validate_pkce(auth_code, code_verifier)
       THEN "pkce"
  ELSE "proceed"

\* authenticate_client and the grant-type check.
acg_authenticate(p, code, client_id, client_secret, redirect_uri, code_verifier) ==
  /\ MayStart(p, MaxCodeCalls)
  /\ LET client == authenticate_client(client_id, client_secret)
         frame == [pc |-> "acg_get_by_code", op |-> "authorization_code_grant",
                   code |-> code, client_id |-> client_id,
                   redirect_uri |-> redirect_uri, code_verifier |-> code_verifier,
                   auth_code |-> None, token |-> None, why |-> "",
                   late |-> CodeTerminal(code), at_expiry |-> FALSE,
                   client_ok |-> ClientOk(client_id, client_secret),
                   keep |-> {"code", "late", "at_expiry", "client_ok"}]
     IN proc' = [proc EXCEPT ![p] =
          IF client = None THEN Finish(frame, None, "client_auth")
          ELSE IF ~validate_grant_type(client, "authorization_code")
               THEN Finish(frame, None, "grant_type")
               ELSE frame]
  /\ calls' = calls + 1
  /\ UNCHANGED <<now, admin, codes, tokens, cache, nextCode, nextTok, history, pkce>>

\* get_by_code and the checks on the row read.
acg_get_by_code(p) ==
  /\ At(p, "acg_get_by_code")
  /\ LET f == proc[p]
         auth_code == get_by_code(f.code)
         d == acg_decide(auth_code, f.client_id, f.redirect_uri, f.code_verifier, now)
         \* the code is read at the very instant it expires
         g == [f EXCEPT !.auth_code = auth_code,
                        !.at_expiry = (auth_code # None /\ auth_code.expires_at = now)]
     IN proc' = [proc EXCEPT ![p] =
          CASE d \in {"expired", "used"} ->
                 Drop([g EXCEPT !.pc = "acg_delete_invalid", !.why = d],
                      {"client_id", "redirect_uri", "code_verifier", "token"})
            [] d = "proceed" ->
                 [g EXCEPT !.pc = "acg_mark_as_used",
                           !.keep = @ \cup {"auth_code", "code_verifier", "redirect_uri"}]
            [] OTHER ->
                 Finish([g EXCEPT !.keep = @ \cup {"auth_code", "code_verifier",
                                                    "redirect_uri"}], None, d)]
  /\ UNCHANGED <<now, admin, codes, tokens, cache, nextCode, nextTok, history, pkce, calls>>

\* delete of an expired or used code, then invalid_grant.
acg_delete_invalid(p) ==
  /\ At(p, "acg_delete_invalid")
  /\ codes' = AuthorizationCodeRepository_delete(proc[p].auth_code.id)
  /\ proc' = [proc EXCEPT ![p] = Finish(proc[p], None, proc[p].why)]
  /\ UNCHANGED <<now, admin, tokens, cache, nextCode, nextTok, history, pkce, calls>>

\* mark_as_used, then the tokens are minted from the row read earlier.
acg_mark_as_used(p) ==
  /\ At(p, "acg_mark_as_used")
  /\ codes' = mark_as_used(proc[p].auth_code.id)
  /\ LET f == proc[p]
         ac == f.auth_code
         token == [id |-> 0, user_id |-> ac.user_id, client_id |-> f.client_id,
                   access_token |-> create_access_token(ac.user_id, f.client_id, ac.scopes, now),
                   expires_at |-> access_token_expires_at(now), scopes |-> ac.scopes,
                   refresh_token |-> create_refresh_token(ac.user_id, f.client_id, ac.scopes, now)]
     IN proc' = [proc EXCEPT ![p] = [f EXCEPT !.pc = "acg_token_create", !.token = token]]
  /\ UNCHANGED <<now, admin, tokens, cache, nextCode, nextTok, history, pkce, calls>>

\* token_repository.create: the insert fails on a duplicate token string.
acg_token_create(p) ==
  /\ At(p, "acg_token_create")
  /\ LET f == proc[p]
         row == [f.token EXCEPT !.id = nextTok]
     IN IF TokenUniqueViolation(row)
        THEN /\ proc' = [proc EXCEPT ![p] = Finish(f, Raised, "IntegrityError")]
             /\ UNCHANGED <<tokens, nextTok, revoked>>
        ELSE /\ tokens' = tokens \cup {row}
             /\ nextTok' = nextTok + 1
             /\ revoked' = revoked \ Reissued(row)
             /\ proc' = [proc EXCEPT ![p] = [f EXCEPT !.pc = "acg_delete", !.token = row]]
  /\ UNCHANGED <<now, admin, codes, cache, nextCode, redeemed, rotated, pkce, calls>>

\* delete of the redeemed code; the token is returned.
acg_delete(p) ==
  /\ At(p, "acg_delete")
  /\ codes' = AuthorizationCodeRepository_delete(proc[p].auth_code.id)
  /\ proc' = [proc EXCEPT ![p] = Finish(proc[p], proc[p].token, "token")]
  /\ redeemed' = redeemed \cup
       {[code |-> proc[p].code,
         live |-> Concurrent(p, "authorization_code_grant", "code", proc[p].code)]}
  /\ UNCHANGED <<now, admin, tokens, cache, nextCode, nextTok, rotated, revoked, pkce, calls>>

\* ------------------------------------------------------------------ users
get_by_username(username) ==
  IF \E u \in users : u.username = username
  THEN CHOOSE u \in users : u.username = username
  ELSE None

\* An authenticate_user that does not look at is_active.
authenticate_user_any_state(username, password) ==
  LET user == get_by_username(username) IN
  IF user = None THEN None
  ELSE IF ~verify_secret(password, user.hashed_password) THEN None
  ELSE user

authenticate_user(username, password) ==
  LET user == get_by_username(username) IN
  IF user = None THEN None
  ELSE IF ~verify_secret(password, user.hashed_password) THEN None
  ELSE IF ~user.is_active THEN None
  ELSE user

\* Whether a user row with this name exists, is active, and holds this password.
UserOk(username, password) ==
  \E u \in users : /\ u.username = username
                    /\ u.is_active
                    /\ verify_secret(password, u.hashed_password)

get_by_email(email) ==
  IF \E u \in users : u.email = email
  THEN CHOOSE u \in users : u.email = email
  ELSE None

\* The users table without its unique constraints.
UserUniqueViolation_none(user) == FALSE
\* The unique constraints of the users table: primary key, username, email.
UserUniqueViolation(user) ==
  \E u \in users : u.id = user.id \/ u.username = user.username \/ u.email = user.email

\* The uuid4 of the next User entity: one no stored user has.
FreshUserIds == <<"u2", "u3", "u4", "u5", "u6">>
NewUserId == FreshUserIds[Cardinality(users)]

UserRepository_get_by_id(user_id) ==
  IF \E u \in users : u.id = user_id
  THEN CHOOSE u \in users : u.id = user_id
  ELSE None

\* ------------------------------------------------------------ token rows
\* A Token entity that carries a refresh token whichever grant builds it.
NewToken_always_refresh(user_id, client_id, scopes, with_refresh, t) ==
  [id |-> 0, user_id |-> user_id, client_id |-> client_id,
   access_token |-> create_access_token(user_id, client_id, scopes, t),
   expires_at |-> access_token_expires_at(t), scopes |-> scopes,
   refresh_token |-> create_refresh_token(user_id, client_id, scopes, t)]

\* The Token entity built by a grant; its row id is assigned when it is stored.
NewToken(user_id, client_id, scopes, with_refresh, t) ==
  [id |-> 0, user_id |-> user_id, client_id |-> client_id,
   access_token |-> create_access_token(user_id, client_id, scopes, t),
   expires_at |-> access_token_expires_at(t), scopes |-> scopes,
   refresh_token |-> IF with_refresh
                     THEN create_refresh_token(user_id, client_id, scopes, t)
                     ELSE None]

\* The token strings a caller can hold: those stored, and those once issued
\* and since rotated or revoked; and a string this server never signed.
Presentable ==
  ({r.access_token : r \in tokens} \cup {r.refresh_token : r \in tokens}
     \cup {h.refresh_token : h \in rotated} \cup revoked \cup {Garbage}) \ {None}

\* ------------------------------------------------------------ password_grant
\* Python's "scopes or client.scopes": None and the empty list both fall through.
scopes_or(scopes, default) == IF scopes = <<>> THEN default ELSE scopes

\* authenticate_client and the grant-type check.
pg_authenticate_client(p, username, password, client_id, client_secret, scopes) ==
  /\ MayStart(p, MaxTokenCalls)
  /\ LET client == authenticate_client(client_id, client_secret)
         frame == [pc |-> "pg_authenticate_user", op |-> "password_grant",
                   username |-> username, password |-> password, scopes |-> scopes,
                   client |-> client, token |-> None,
                   client_ok |-> ClientOk(client_id, client_secret), user_ok |-> FALSE,
                   keep |-> {"scopes", "client", "client_ok", "user_ok"}]
     IN proc' = [proc EXCEPT ![p] =
          IF client = None THEN Finish(frame, None, "client_auth")
          ELSE IF ~validate_grant_type(client, "password")
               THEN Finish(frame, None, "grant_type")
               ELSE frame]
  /\ calls' = calls + 1
  /\ UNCHANGED <<now, admin, codes, tokens, cache, nextCode, nextTok, history, pkce>>

\* authenticate_user, then the tokens are minted.
pg_authenticate_user(p) ==
  /\ At(p, "pg_authenticate_user")
  /\ LET f == proc[p]
         user == authenticate_user(f.username, f.password)
         token_scopes == scopes_or(f.scopes, f.client.scopes)
     IN proc' = [proc EXCEPT ![p] =
          LET g == [f EXCEPT !.user_ok = UserOk(f.username, f.password)] IN
          IF user = None THEN Finish(g, None, "user_auth")
          ELSE [g EXCEPT !.pc = "pg_token_create",
                         !.token = NewToken(user.id, f.client.id, token_scopes, TRUE, now)]]
  /\ UNCHANGED <<now, admin, codes, tokens, cache, nextCode, nextTok, history, pkce, calls>>

\* token_repository.create.
pg_token_create(p) ==
  /\ At(p, "pg_token_create")
  /\ LET f == proc[p]
         row == [f.token EXCEPT !.id = nextTok]
     IN IF TokenUniqueViolation(row)
        THEN /\ proc' = [proc EXCEPT ![p] = Finish(f, Raised, "IntegrityError")]
             /\ UNCHANGED <<tokens, nextTok, revoked>>
        ELSE /\ tokens' = tokens \cup {row}
             /\ nextTok' = nextTok + 1
             /\ revoked' = revoked \ Reissued(row)
             /\ proc' = [proc EXCEPT ![p] = Finish(f, row, "token")]
  /\ UNCHANGED <<now, admin, codes, cache, nextCode, redeemed, rotated, pkce, calls>>

\* ------------------------------------------------------- refresh_token_grant
\* authenticate_client, the grant-type check and the verification of the
\* refresh token's signature, expiry and type.
rtg_authenticate(p, refresh_token, client_id, client_secret) ==
  /\ MayStart(p, MaxTokenCalls)
  /\ LET client == authenticate_client(client_id, client_secret)
         token_payload == verify_token(refresh_token, now)
         frame == [pc |-> "rtg_get_by_refresh_token", op |-> "refresh_token_grant",
                   refresh_token |-> refresh_token, client |-> client,
                   token_payload |-> token_payload, existing_token |-> None,
                   token |-> None,
                   late |-> \E h \in rotated : h.refresh_token = refresh_token,
                   client_ok |-> ClientOk(client_id, client_secret),
                   keep |-> {"refresh_token", "late", "client_ok"}]
     IN proc' = [proc EXCEPT ![p] =
          IF client = None THEN Finish(frame, None, "client_auth")
          ELSE IF ~validate_grant_type(client, "refresh_token")
               THEN Finish(frame, None, "grant_type")
          ELSE IF token_payload = None THEN Finish(frame, None, "verify")
          ELSE IF token_payload.type # "refresh" THEN Finish(frame, None, "type")
          ELSE frame]
  /\ calls' = calls + 1
  /\ UNCHANGED <<now, admin, codes, tokens, cache, nextCode, nextTok, history, pkce>>

\* get_by_refresh_token.
rtg_get_by_refresh_token(p) ==
  /\ At(p, "rtg_get_by_refresh_token")
  /\ LET f == proc[p]
         existing_token == get_by_refresh_token(f.refresh_token)
     IN proc' = [proc EXCEPT ![p] =
          IF existing_token = None THEN Finish(f, None, "absent")
          ELSE [f EXCEPT !.pc = "rtg_revoke", !.existing_token = existing_token]]
  /\ UNCHANGED <<now, admin, codes, tokens, cache, nextCode, nextTok, history, pkce, calls>>

\* revoke of the old row (its result is not looked at), then the new tokens are
\* minted from the refresh claims.
rtg_revoke(p) ==
  /\ At(p, "rtg_revoke")
  /\ tokens' = TokenRepository_revoke(proc[p].existing_token.id)
  /\ LET f == proc[p]
         user_id == f.token_payload.sub
         scopes == f.token_payload.scopes
     IN proc' = [proc EXCEPT ![p] =
          [f EXCEPT !.pc = "rtg_token_create",
                    !.token = NewToken(user_id, f.client.id, scopes, TRUE, now)]]
  /\ UNCHANGED <<now, admin, codes, cache, nextCode, nextTok, history, pkce, calls>>

\* token_repository.create of the new pair.
rtg_token_create(p) ==
  /\ At(p, "rtg_token_create")
  /\ LET f == proc[p]
         row == [f.token EXCEPT !.id = nextTok]
     IN IF TokenUniqueViolation(row)
        THEN /\ proc' = [proc EXCEPT ![p] = Finish(f, Raised, "IntegrityError")]
             /\ UNCHANGED <<tokens, nextTok, rotated, revoked>>
        ELSE /\ tokens' = tokens \cup {row}
             /\ nextTok' = nextTok + 1
             /\ rotated' = rotated \cup
                  {[refresh_token |-> f.refresh_token,
                    live |-> Concurrent(p, "refresh_token_grant", "refresh_token",
                                        f.refresh_token)]}
             /\ revoked' = revoked \ Reissued(row)
             /\ proc' = [proc EXCEPT ![p] = Finish(f, row, "token")]
  /\ UNCHANGED <<now, admin, codes, cache, nextCode, redeemed, pkce, calls>>

\* ---------------------------------------------------------- introspect_token
\* (client_credentials_grant) authenticate_client and the grant-type check,
\* then the access token is minted for the client itself.
ccg_authenticate(p, client_id, client_secret, scopes) ==
  /\ MayStart(p, MaxGrantCalls)
  /\ LET client == authenticate_client(client_id, client_secret)
         frame == [pc |-> "ccg_token_create", op |-> "client_credentials_grant",
                   scopes |-> scopes, client |-> client, token |-> None,
                   client_ok |-> ClientOk(client_id, client_secret),
                   keep |-> {"scopes", "client", "client_ok"}]
     IN proc' = [proc EXCEPT ![p] =
          IF client = None THEN Finish(frame, None, "client_auth")
          ELSE IF ~validate_grant_type(client, "client_credentials")
               THEN Finish(frame, None, "grant_type")
               ELSE [frame EXCEPT !.token =
                       NewToken(client.id, client.id,
                                scopes_or(scopes, client.scopes), FALSE, now)]]
  /\ calls' = calls + 1
  /\ UNCHANGED <<now, admin, codes, tokens, cache, nextCode, nextTok, history, pkce>>

\* token_repository.create.
ccg_token_create(p) ==
  /\ At(p, "ccg_token_create")
  /\ LET f == proc[p]
         row == [f.token EXCEPT !.id = nextTok]
     IN IF TokenUniqueViolation(row)
        THEN /\ proc' = [proc EXCEPT ![p] = Finish(f, Raised, "IntegrityError")]
             /\ UNCHANGED <<tokens, nextTok, revoked>>
        ELSE /\ tokens' = tokens \cup {row}
             /\ nextTok' = nextTok + 1
             /\ revoked' = revoked \ Reissued(row)
             /\ proc' = [proc EXCEPT ![p] = Finish(f, row, "token")]
  /\ UNCHANGED <<now, admin, codes, cache, nextCode, redeemed, rotated, pkce, calls>>

\* ------------------------------------------------- activation of users, clients
\* deactivate_user: user_repository.get_by_id; an unknown id raises ValueError.
deactivate_user_get_by_id(p, user_id) ==
  /\ MayStart(p, MaxGrantCalls)
  /\ LET user == UserRepository_get_by_id(user_id)
         frame == [pc |-> "deactivate_user_update", op |-> "deactivate_user",
                   user |-> user, keep |-> {}]
     IN proc' = [proc EXCEPT ![p] =
          IF user = None THEN Finish(frame, Raised, "ValueError") ELSE frame]
  /\ calls' = calls + 1
  /\ UNCHANGED <<now, admin, codes, tokens, cache, nextCode, nextTok, history, pkce>>

\* user.deactivate() and user_repository.update.
deactivate_user_update(p) ==
  /\ At(p, "deactivate_user_update")
  /\ LET f == proc[p]
         user == [f.user EXCEPT !.is_active = FALSE]
     IN /\ users' = {IF u.id = user.id THEN user ELSE u : u \in users}
        /\ proc' = [proc EXCEPT ![p] = Finish(f, user, "updated")]
  /\ UNCHANGED <<now, clients, codes, tokens, cache, nextCode, nextTok, history, pkce, calls>>

\* activate_user: user_repository.get_by_id; an unknown id raises ValueError.
activate_user_get_by_id(p, user_id) ==
  /\ MayStart(p, MaxGrantCalls)
  /\ LET user == UserRepository_get_by_id(user_id)
         frame == [pc |-> "activate_user_update", op |-> "activate_user",
                   user |-> user, keep |-> {}]
     IN proc' = [proc EXCEPT ![p] =
          IF user = None THEN Finish(frame, Raised, "ValueError") ELSE frame]
  /\ calls' = calls + 1
  /\ UNCHANGED <<now, admin, codes, tokens, cache, nextCode, nextTok, history, pkce>>

\* user.activate() and user_repository.update.
activate_user_update(p) ==
  /\ At(p, "activate_user_update")
  /\ LET f == proc[p]
         user == [f.user EXCEPT !.is_active = TRUE]
     IN /\ users' = {IF u.id = user.id THEN user ELSE u : u \in users}
        /\ proc' = [proc EXCEPT ![p] = Finish(f, user, "updated")]
  /\ UNCHANGED <<now, clients, codes, tokens, cache, nextCode, nextTok, history, pkce, calls>>

\* deactivate_client: client_repository.get_by_id; an unknown id raises ValueError.
deactivate_client_get_by_id(p, client_id) ==
  /\ MayStart(p, MaxGrantCalls)
  /\ LET client == ClientRepository_get_by_id(client_id)
         frame == [pc |-> "deactivate_client_update", op |-> "deactivate_client",
                   client |-> client, keep |-> {}]
     IN proc' = [proc EXCEPT ![p] =
          IF client = None THEN Finish(frame, Raised, "ValueError") ELSE frame]
  /\ calls' = calls + 1
  /\ UNCHANGED <<now, admin, codes, tokens, cache, nextCode, nextTok, history, pkce>>

\* client.deactivate() and client_repository.update.
deactivate_client_update(p) ==
  /\ At(p, "deactivate_client_update")
  /\ LET f == proc[p]
         client == [f.client EXCEPT !.is_active = FALSE]
     IN /\ clients' = {IF c.id = client.id THEN client ELSE c : c \in clients}
        /\ proc' = [proc EXCEPT ![p] = Finish(f, client, "updated")]
  /\ UNCHANGED <<now, users, codes, tokens, cache, nextCode, nextTok, history, pkce, calls>>

\* validate_client_grant as a call: one read of the client, then the answer.
vcg_get_by_id(p, client_id, grant_type, redirect_uri) ==
  /\ MayStart(p, MaxGrantCalls)
  /\ LET frame == [pc |-> "done", op |-> "validate_client_grant",
                   client_id |-> client_id, grant_type |-> grant_type,
                   redirect_uri |-> redirect_uri,
                   keep |-> {"client_id", "grant_type", "redirect_uri"}]
     IN proc' = [proc EXCEPT ![p] =
          Finish(frame, Returned(validate_client_grant(client_id, grant_type, redirect_uri)),
                 "answered")]
  /\ calls' = calls + 1
  /\ UNCHANGED <<now, admin, codes, tokens, cache, nextCode, nextTok, history, pkce>>

\* ------------------------------------------------------- the cache is down
\* cache.get raises (the Redis call fails): nothing catches it, and
\* introspect_token ends with the exception.
it_cache_get_raises(p, token) ==
  /\ MayStart(p, MaxTokenCalls)
  /\ LET frame == [pc |-> "it_get_by_access_token", op |-> "introspect_token",
                   token |-> token, payload |-> verify_token(token, now), ttl |-> 0,
                   after_revoke |-> token \in revoked, at_expiry |-> FALSE,
                   keep |-> {"token", "after_revoke", "at_expiry"}]
     IN proc' = [proc EXCEPT ![p] = Finish(frame, Raised, "cache_error")]
  /\ calls' = calls + 1
  /\ UNCHANGED <<now, admin, codes, tokens, cache, nextCode, nextTok, history, pkce>>

\* cache.set raises: introspect_token ends with the exception instead of the
\* answer it had computed.
it_cache_set_raises(p) ==
  /\ At(p, "it_cache_set")
  /\ proc' = [proc EXCEPT ![p] = Finish(proc[p], Raised, "cache_error")]
  /\ UNCHANGED <<now, admin, codes, tokens, cache, nextCode, nextTok, history, pkce, calls>>

\* cache.delete raises: revoke_token ends with the exception before
\* token_repository.revoke is reached.
rv_cache_delete_raises(p) ==
  /\ At(p, "rv_cache_delete")
  /\ proc' = [proc EXCEPT ![p] = Finish(proc[p], Raised, "cache_error")]
  /\ UNCHANGED <<now, admin, codes, tokens, cache, nextCode, nextTok, history, pkce, calls>>

\* -------------------------------------------------------------- create_user
\* user_repository.get_by_username; a user found raises ValueError.
cu_get_by_username(p, username, email, password) ==
  /\ MayStart(p, MaxUserCalls)
  /\ LET existing_user == get_by_username(username)
         frame == [pc |-> "cu_get_by_email", op |-> "create_user",
                   username |-> username, email |-> email, password |-> password,
                   existed |-> (get_by_username(username) # None \/ get_by_email(email) # None),
                   added |-> {},
                   keep |-> {"username", "email", "existed", "added"}]
     IN proc' = [proc EXCEPT ![p] =
          IF existing_user # None THEN Finish(frame, Raised, "ValueError") ELSE frame]
  /\ calls' = calls + 1
  /\ UNCHANGED <<now, admin, codes, tokens, cache, nextCode, nextTok, history, pkce>>

\* user_repository.get_by_email; a user found raises ValueError.
cu_get_by_email(p) ==
  /\ At(p, "cu_get_by_email")
  /\ LET f == proc[p]
         existing_email == get_by_email(f.email)
     IN proc' = [proc EXCEPT ![p] =
          IF existing_email # None THEN Finish(f, Raised, "ValueError")
          ELSE [f EXCEPT !.pc = "cu_create"]]
  /\ UNCHANGED <<now, admin, codes, tokens, cache, nextCode, nextTok, history, pkce, calls>>

\* hash_password, the User entity, and user_repository.create: the commit
\* fails on a unique constraint.
cu_create(p) ==
  /\ At(p, "cu_create")
  /\ LET f == proc[p]
         user == [id |-> NewUserId, username |-> f.username, email |-> f.email,
                  hashed_password |-> hash_secret(f.password), is_active |-> TRUE]
     IN IF UserUniqueViolation(user)
        THEN /\ proc' = [proc EXCEPT ![p] = Finish(f, Raised, "IntegrityError")]
             /\ UNCHANGED users
        ELSE /\ users' = users \cup {user}
             /\ proc' = [proc EXCEPT ![p] = Finish([f EXCEPT !.added = {user.id}], user, "created")]
  /\ UNCHANGED <<now, clients, codes, tokens, cache, nextCode, nextTok, history, pkce, calls>>

\* ------------------------------------------------------------ introspection
CacheHas(key) == \E e \in cache : e.key = key
CacheWithout(key) == {e \in cache : e.key # key}

\* cache.get; on a miss the signature and expiry of the token are verified.
it_cache_get(p, token) ==
  /\ MayStart(p, MaxTokenCalls)
  /\ LET payload == verify_token(token, now)
         frame == [pc |-> "it_get_by_access_token", op |-> "introspect_token",
                   token |-> token, payload |-> payload, ttl |-> 0,
                   after_revoke |-> token \in revoked, at_expiry |-> FALSE,
                   keep |-> {"token", "after_revoke", "at_expiry"}]
     IN proc' = [proc EXCEPT ![p] =
          IF CacheHas(token) THEN Finish(frame, [active |-> TRUE], "cached")
          ELSE IF payload = None THEN Finish(frame, [active |-> FALSE], "verify")
          ELSE frame]
  /\ calls' = calls + 1
  /\ UNCHANGED <<now, admin, codes, tokens, cache, nextCode, nextTok, history, pkce>>

\* get_by_access_token, the expiry check and the TTL.
it_get_by_access_token(p) ==
  /\ At(p, "it_get_by_access_token")
  /\ LET token_entity == get_by_access_token(proc[p].token)
         \* the row is read at the very instant it expires
         f == [proc[p] EXCEPT !.at_expiry =
                 (token_entity # None /\ token_entity.expires_at = now)]
         ttl == token_entity.expires_at - now
         answer == [active |-> TRUE, client_id |-> f.payload.client_id,
                    sub |-> f.payload.sub, scopes |-> f.payload.scopes,
                    exp |-> f.payload.exp, iat |-> f.payload.iat]
     IN proc' = [proc EXCEPT ![p] =
          IF token_entity = None THEN Finish(f, [active |-> FALSE], "absent")
          ELSE IF Token_is_expired(token_entity, now)
               THEN Finish(f, [active |-> FALSE], "expired")
          ELSE IF ttl > 0 THEN [f EXCEPT !.pc = "it_cache_set", !.ttl = ttl]
          ELSE Finish(f, answer, "active")]
  /\ UNCHANGED <<now, admin, codes, tokens, cache, nextCode, nextTok, history, pkce, calls>>

\* A cache.set with one tick more than the TTL computed.
it_cache_set_longer(p) ==
  /\ At(p, "it_cache_set")
  /\ LET f == proc[p]
         answer == [active |-> TRUE, client_id |-> f.payload.client_id,
                    sub |-> f.payload.sub, scopes |-> f.payload.scopes,
                    exp |-> f.payload.exp, iat |-> f.payload.iat]
     IN /\ cache' = CacheWithout(f.token) \cup {[key |-> f.token, expires |-> now + f.ttl + 1]}
        /\ proc' = [proc EXCEPT ![p] = Finish(f, answer, "active")]
  /\ UNCHANGED <<now, admin, codes, tokens, nextCode, nextTok, history, pkce, calls>>

\* cache.set with the TTL computed before the call.
it_cache_set(p) ==
  /\ At(p, "it_cache_set")
  /\ LET f == proc[p]
         answer == [active |-> TRUE, client_id |-> f.payload.client_id,
                    sub |-> f.payload.sub, scopes |-> f.payload.scopes,
                    exp |-> f.payload.exp, iat |-> f.payload.iat]
     IN /\ cache' = CacheWithout(f.token) \cup {[key |-> f.token, expires |-> now + f.ttl]}
        /\ proc' = [proc EXCEPT ![p] = Finish(f, answer, "active")]
  /\ UNCHANGED <<now, admin, codes, tokens, nextCode, nextTok, history, pkce, calls>>

\* -------------------------------------------------------------- revoke_token
\* The first lookup: by refresh token when the hint says so, else by access token.
rv_lookup_first(p, token, token_type_hint) ==
  /\ MayStart(p, MaxTokenCalls)
  /\ LET token_entity == IF token_type_hint = "refresh_token"
                         THEN get_by_refresh_token(token)
                         ELSE get_by_access_token(token)
         frame == [pc |-> "rv_lookup_second", op |-> "revoke_token",
                   token |-> token, token_type_hint |-> token_type_hint,
                   token_entity |-> token_entity,
                   cache_deleted |-> FALSE, row_deleted |-> FALSE,
                   late |-> token \in revoked,
                   lookups |-> <<IF token_type_hint = "refresh_token"
                                 THEN "refresh_token" ELSE "access_token">>,
                   held |-> {r.id : r \in {x \in tokens : token \in {x.access_token,
                                                                     x.refresh_token}}},
                   keep |-> {"token", "late", "cache_deleted", "row_deleted",
                             "token_type_hint", "lookups", "held"}]
     IN proc' = [proc EXCEPT ![p] =
          IF token_entity = None THEN frame
          ELSE [frame EXCEPT !.pc = "rv_cache_delete"]]
  /\ calls' = calls + 1
  /\ UNCHANGED <<now, admin, codes, tokens, cache, nextCode, nextTok, history, pkce>>

\* A revoke_token that gives up after the first lookup.
rv_lookup_second_skipped(p) ==
  /\ At(p, "rv_lookup_second")
  /\ proc' = [proc EXCEPT ![p] = Finish(proc[p], Returned(TRUE), "unknown")]
  /\ UNCHANGED <<now, admin, codes, tokens, cache, nextCode, nextTok, history, pkce, calls>>

\* The second lookup, by the other form; an unknown token is a success.
rv_lookup_second(p) ==
  /\ At(p, "rv_lookup_second")
  /\ LET f == proc[p]
         token_entity == IF f.token_type_hint = "refresh_token"
                         THEN get_by_access_token(f.token)
                         ELSE get_by_refresh_token(f.token)
         g == [f EXCEPT !.lookups = Append(@, IF f.token_type_hint = "refresh_token"
                                              THEN "access_token" ELSE "refresh_token")]
     IN proc' = [proc EXCEPT ![p] =
          IF token_entity = None THEN Finish(g, Returned(TRUE), "unknown")
          ELSE [g EXCEPT !.pc = "rv_cache_delete", !.token_entity = token_entity]]
  /\ UNCHANGED <<now, admin, codes, tokens, cache, nextCode, nextTok, history, pkce, calls>>

\* cache.delete of the key built from the string presented.
rv_cache_delete(p) ==
  /\ At(p, "rv_cache_delete")
  /\ cache' = CacheWithout(proc[p].token)
  /\ proc' = [proc EXCEPT ![p] = [@ EXCEPT !.pc = "rv_revoke", !.cache_deleted = TRUE]]
  /\ UNCHANGED <<now, admin, codes, tokens, nextCode, nextTok, history, pkce, calls>>

\* token_repository.revoke, whose result is the result of the call.
rv_revoke(p) ==
  /\ At(p, "rv_revoke")
  /\ LET f == proc[p]
     IN /\ tokens' = TokenRepository_revoke(f.token_entity.id)
        /\ proc' = [proc EXCEPT ![p] =
             Finish([f EXCEPT !.row_deleted = TRUE],
                    Returned(revoke_found(f.token_entity.id)), "revoked")]
        /\ revoked' = revoked \cup {f.token}
  /\ UNCHANGED <<now, admin, codes, cache, nextCode, nextTok, redeemed, rotated, pkce, calls>>

\* ------------------------------------------------------------ POST /oauth2/revoke
\* The endpoint's dependency authenticate_client: the client is authenticated
\* before the handler body runs; a failure is answered with invalid_client.
revoke_endpoint_authenticate(p, token, token_type_hint, client_id, client_secret) ==
  /\ MayStart(p, MaxGrantCalls)
  /\ LET client == authenticate_client(client_id, client_secret)
         frame == [pc |-> "revoke_endpoint_lookup_first", op |-> "revoke_endpoint",
                   token |-> token, token_type_hint |-> token_type_hint,
                   client |-> client, keep |-> {"token", "client"}]
     IN proc' = [proc EXCEPT ![p] =
          IF client = None THEN Finish(frame, [error |-> "invalid_client"], "client_auth")
          ELSE frame]
  /\ calls' = calls + 1
  /\ UNCHANGED <<now, admin, codes, tokens, cache, nextCode, nextTok, history, pkce>>

\* The handler body calls revoke_token(token, token_type_hint), without the
\* client; this is the first lookup of revoke_token.
revoke_endpoint_lookup_first(p) ==
  /\ At(p, "revoke_endpoint_lookup_first")
  /\ LET f == proc[p]
         token_entity == IF f.token_type_hint = "refresh_token"
                         THEN get_by_refresh_token(f.token)
                         ELSE get_by_access_token(f.token)
         frame == [pc |-> "rv_lookup_second", op |-> "revoke_token",
                   token |-> f.token, token_type_hint |-> f.token_type_hint,
                   client |-> f.client, token_entity |-> token_entity,
                   cache_deleted |-> FALSE, row_deleted |-> FALSE,
                   late |-> f.token \in revoked,
                   lookups |-> <<IF f.token_type_hint = "refresh_token"
                                 THEN "refresh_token" ELSE "access_token">>,
                   held |-> {r.id : r \in {x \in tokens : f.token \in {x.access_token,
                                                                       x.refresh_token}}},
                   keep |-> {"token", "client", "late", "cache_deleted", "row_deleted",
                             "token_type_hint", "lookups", "held"}]
     IN proc' = [proc EXCEPT ![p] =
          IF token_entity = None THEN frame
          ELSE [frame EXCEPT !.pc = "rv_cache_delete"]]
  /\ UNCHANGED <<now, admin, codes, tokens, cache, nextCode, nextTok, history, pkce, calls>>

\* ------------------------------------------------------------------ specifications
PkceIdle ==
  [challenge |-> Null, method |-> Null, verifier |-> Null,
   validated |-> FALSE, result |-> FALSE]

InitStore ==
  /\ now = 0
  /\ clients = InitClients
  /\ users = InitUsers
  /\ codes = {}
  /\ tokens = {}
  /\ cache = {}
  /\ nextCode = 1
  /\ nextTok = 1
  /\ proc = [p \in Procs |-> Idle]
  /\ redeemed = {}
  /\ rotated = {}
  /\ revoked = {}
  /\ calls = 0

Init == InitStore /\ pkce = PkceIdle

\* The authorization-code lifecycle: issuance, redemption, time.
NextCode ==
  \/ Tick
  \/ \E p \in Procs : Return(p)
  \/ \E p \in Procs, c \in {"c1"}, u \in RedirectUris, pk \in PkceChoices, usr \in UserIds :
       authorize_approve_get_client(p, c, u, pk, usr)
  \/ \E p \in Procs : authorize_approve_create(p)
  \/ \E p \in Procs, code \in 1..(nextCode - 1), cs \in Credentials,
        u \in {"https://app/cb"}, v \in Verifiers \cup {Null} :
       acg_authenticate(p, code, cs[1], cs[2], u, v)
  \/ \E p \in Procs : acg_get_by_code(p)
  \/ \E p \in Procs : acg_delete_invalid(p)
  \/ \E p \in Procs : acg_mark_as_used(p)
  \/ \E p \in Procs : acg_token_create(p)
  \/ \E p \in Procs : acg_delete(p)

SpecCode == Init /\ [][NextCode]_vars

\* The redirect_uri through the authorization phase and the redemption: codes
\* without PKCE, any redirect_uri presented at either end.
NextRedirect ==
  \/ Tick
  \/ \E p \in Procs : Return(p)
  \/ \E p \in Procs, rt \in ResponseTypes, c \in ClientIds \cup {"c0"}, u \in RedirectUris :
       authorize_get(p, rt, c, u, <<Null, Null>>)
  \/ \E p \in Procs, c \in ClientIds \cup {"c0"}, u \in RedirectUris, usr \in UserIds :
       authorize_approve_get_client(p, c, u, <<Null, Null>>, usr)
  \/ \E p \in Procs : authorize_approve_create(p)
  \/ \E p \in Procs, code \in 1..(nextCode - 1), u \in RedirectUris :
       acg_authenticate(p, code, "c1", "s1", u, Null)
  \/ \E p \in Procs : acg_get_by_code(p)
  \/ \E p \in Procs : acg_delete_invalid(p)
  \/ \E p \in Procs : acg_mark_as_used(p)
  \/ \E p \in Procs : acg_token_create(p)
  \/ \E p \in Procs : acg_delete(p)

SpecRedirect == Init /\ [][NextRedirect]_vars

\* The token lifecycle: issuance, rotation, introspection, revocation, time.
NextToken ==
  \/ Tick
  \/ \E p \in Procs : Return(p)
  \/ \E p \in Procs : pg_authenticate_client(p, "alice", "Password1!", "c1", "s1", <<>>)
  \/ \E p \in Procs : pg_authenticate_user(p)
  \/ \E p \in Procs : pg_token_create(p)
  \/ \E p \in Procs, t \in Presentable : rtg_authenticate(p, t, "c1", "s1")
  \/ \E p \in Procs : rtg_get_by_refresh_token(p)
  \/ \E p \in Procs : rtg_revoke(p)
  \/ \E p \in Procs : rtg_token_create(p)
  \/ \E p \in Procs, t \in Presentable : it_cache_get(p, t)
  \/ \E p \in Procs : it_get_by_access_token(p)
  \/ \E p \in Procs : it_cache_set(p)
  \/ \E p \in Procs, t \in Presentable, h \in {Null, "refresh_token"} : rv_lookup_first(p, t, h)
  \/ \E p \in Procs : rv_lookup_second(p)
  \/ \E p \in Procs : rv_cache_delete(p)
  \/ \E p \in Procs : rv_revoke(p)

SpecToken == Init /\ [][NextToken]_vars

\* What the grants specification presents: client credentials (right, wrong
\* secret, a client without the grant, the public client), user credentials
\* (right, wrong password, unknown name), and requested scopes (none, or a
\* registered one with a foreign one).
GrantCredentials == {<<"c1", "s1">>, <<"c1", "bad">>, <<"c2", "s2">>, <<"c3", "s3">>}
UserCredentials == {<<"alice", "Password1!">>, <<"alice", "bad">>, <<"bob", "Password1!">>}
RequestedScopes == {<<>>, <<"read", "admin">>}

\* The password, client-credentials and refresh grants next to the
\* deactivation and activation of users, all within one tick of the clock.
NextGrant ==
  \/ \E p \in Procs : Return(p)
  \/ \E p \in Procs, uc \in UserCredentials, cs \in GrantCredentials, sc \in RequestedScopes :
       calls < MaxGrantCalls /\ pg_authenticate_client(p, uc[1], uc[2], cs[1], cs[2], sc)
  \/ \E p \in Procs : pg_authenticate_user(p)
  \/ \E p \in Procs : pg_token_create(p)
  \/ \E p \in Procs, cs \in GrantCredentials, sc \in RequestedScopes :
       ccg_authenticate(p, cs[1], cs[2], sc)
  \/ \E p \in Procs : ccg_token_create(p)
  \/ \E p \in Procs, t \in Presentable, cs \in {<<"c1", "s1">>, <<"c1", "bad">>} :
       calls < MaxGrantCalls /\ rtg_authenticate(p, t, cs[1], cs[2])
  \/ \E p \in Procs : rtg_get_by_refresh_token(p)
  \/ \E p \in Procs : rtg_revoke(p)
  \/ \E p \in Procs : rtg_token_create(p)
  \/ \E p \in Procs, u \in UserIds \cup {"u0"} : deactivate_user_get_by_id(p, u)
  \/ \E p \in Procs : deactivate_user_update(p)
  \/ \E p \in Procs, u \in UserIds \cup {"u0"} : activate_user_get_by_id(p, u)
  \/ \E p \in Procs : activate_user_update(p)

SpecGrant == Init /\ [][NextGrant]_vars

\* What the client specification presents: the right secret, a wrong one, and
\* an unknown client.
ClientCredentials == {<<"c1", "s1">>, <<"c1", "bad">>, <<"c0", "s1">>}

\* The four grants next to the deactivation of clients.
NextClient ==
  \/ \E p \in Procs : Return(p)
  \/ \E p \in Procs, cs \in ClientCredentials :
       calls < MaxGrantCalls
         /\ pg_authenticate_client(p, "alice", "Password1!", cs[1], cs[2], <<>>)
  \/ \E p \in Procs : pg_authenticate_user(p)
  \/ \E p \in Procs : pg_token_create(p)
  \/ \E p \in Procs, cs \in ClientCredentials : ccg_authenticate(p, cs[1], cs[2], <<>>)
  \/ \E p \in Procs : ccg_token_create(p)
  \/ \E p \in Procs, t \in Presentable, cs \in ClientCredentials :
       calls < MaxGrantCalls /\ rtg_authenticate(p, t, cs[1], cs[2])
  \/ \E p \in Procs : rtg_get_by_refresh_token(p)
  \/ \E p \in Procs : rtg_revoke(p)
  \/ \E p \in Procs : rtg_token_create(p)
  \/ \E p \in Procs, usr \in UserIds :
       calls < MaxGrantCalls
         /\ authorize_approve_get_client(p, "c1", "https://app/cb", <<Null, Null>>, usr)
  \/ \E p \in Procs : authorize_approve_create(p)
  \/ \E p \in Procs, code \in 1..(nextCode - 1), cs \in ClientCredentials :
       calls < MaxGrantCalls
         /\ acg_authenticate(p, code, cs[1], cs[2], "https://app/cb", Null)
  \/ \E p \in Procs : acg_get_by_code(p)
  \/ \E p \in Procs : acg_delete_invalid(p)
  \/ \E p \in Procs : acg_mark_as_used(p)
  \/ \E p \in Procs : acg_token_create(p)
  \/ \E p \in Procs : acg_delete(p)
  \/ \E p \in Procs, c \in {"c1", "c0"} : deactivate_client_get_by_id(p, c)
  \/ \E p \in Procs : deactivate_client_update(p)

SpecClient == Init /\ [][NextClient]_vars

\* Revocation with every hint, of anything presentable, next to the refresh
\* grant that deletes rows too.
NextRevoke ==
  \/ \E p \in Procs : Return(p)
  \/ \E p \in Procs : pg_authenticate_client(p, "alice", "Password1!", "c1", "s1", <<>>)
  \/ \E p \in Procs : pg_authenticate_user(p)
  \/ \E p \in Procs : pg_token_create(p)
  \/ \E p \in Procs, t \in Presentable : rtg_authenticate(p, t, "c1", "s1")
  \/ \E p \in Procs : rtg_get_by_refresh_token(p)
  \/ \E p \in Procs : rtg_revoke(p)
  \/ \E p \in Procs : rtg_token_create(p)
  \/ \E p \in Procs, t \in Presentable, h \in {Null, "refresh_token", "access_token"} :
       rv_lookup_first(p, t, h)
  \/ \E p \in Procs : rv_lookup_second(p)
  \/ \E p \in Procs : rv_cache_delete(p)
  \/ \E p \in Procs : rv_revoke(p)

SpecRevoke == Init /\ [][NextRevoke]_vars

\* validate_client_grant asked about known and unknown clients, grant types
\* and redirect URIs (absent, empty, registered, foreign), next to the
\* deactivation of a client.
NextValidate ==
  \/ \E p \in Procs : Return(p)
  \/ \E p \in Procs, c \in {"c1", "c2", "c0"}, g \in {"password", "authorization_code", "implicit"},
        u \in RedirectUris \cup {Null, ""} :
       vcg_get_by_id(p, c, g, u)
  \/ \E p \in Procs, c \in {"c1", "c0"} : deactivate_client_get_by_id(p, c)
  \/ \E p \in Procs : deactivate_client_update(p)

SpecValidate == Init /\ [][NextValidate]_vars

\* The refresh grant presented with anything presentable, as time passes,
\* next to issuance and revocation.
NextRefresh ==
  \/ Tick
  \/ \E p \in Procs : Return(p)
  \/ \E p \in Procs :
       calls < MaxGrantCalls
         /\ pg_authenticate_client(p, "alice", "Password1!", "c1", "s1", <<>>)
  \/ \E p \in Procs : pg_authenticate_user(p)
  \/ \E p \in Procs : pg_token_create(p)
  \/ \E p \in Procs, t \in Presentable :
       calls < MaxGrantCalls /\ rtg_authenticate(p, t, "c1", "s1")
  \/ \E p \in Procs : rtg_get_by_refresh_token(p)
  \/ \E p \in Procs : rtg_revoke(p)
  \/ \E p \in Procs : rtg_token_create(p)
  \/ \E p \in Procs, t \in Presentable :
       calls < MaxGrantCalls /\ rv_lookup_first(p, t, Null)
  \/ \E p \in Procs : rv_lookup_second(p)
  \/ \E p \in Procs : rv_cache_delete(p)
  \/ \E p \in Procs : rv_revoke(p)

SpecRefresh == Init /\ [][NextRefresh]_vars

\* Introspection and revocation with a cache whose calls may fail.
NextCache ==
  \/ Tick
  \/ \E p \in Procs : Return(p)
  \/ \E p \in Procs :
       calls < MaxGrantCalls
         /\ pg_authenticate_client(p, "alice", "Password1!", "c1", "s1", <<>>)
  \/ \E p \in Procs : pg_authenticate_user(p)
  \/ \E p \in Procs : pg_token_create(p)
  \/ \E p \in Procs, t \in Presentable : calls < MaxGrantCalls /\ it_cache_get(p, t)
  \/ \E p \in Procs, t \in Presentable : calls < MaxGrantCalls /\ it_cache_get_raises(p, t)
  \/ \E p \in Procs : it_get_by_access_token(p)
  \/ \E p \in Procs : it_cache_set(p)
  \/ \E p \in Procs : it_cache_set_raises(p)
  \/ \E p \in Procs, t \in Presentable :
       calls < MaxGrantCalls /\ rv_lookup_first(p, t, Null)
  \/ \E p \in Procs : rv_lookup_second(p)
  \/ \E p \in Procs : rv_cache_delete(p)
  \/ \E p \in Procs : rv_cache_delete_raises(p)
  \/ \E p \in Procs : rv_revoke(p)

SpecCache == Init /\ [][NextCache]_vars

\* Registration: usernames and emails taken and free, in every pairing.
Usernames == {"alice", "bob"}
Emails == {"alice@example.com", "bob@example.com"}

NextUser ==
  \/ \E p \in Procs : Return(p)
  \/ \E p \in Procs, n \in Usernames, e \in Emails : cu_get_by_username(p, n, e, "Password1!")
  \/ \E p \in Procs : cu_get_by_email(p)
  \/ \E p \in Procs : cu_create(p)

SpecUser == Init /\ [][NextUser]_vars

\* The PKCE check on its own: a stored challenge and method, a verifier presented.
\* What a client may send as (code_challenge, code_challenge_method) at the
\* authorization endpoints: the well-formed pairs, an unknown method, and a
\* challenge without a method.
AuthorizePkce == PkceChoices \cup { <<V1, "S512">>, <<V1, Null>> }

\* The authorization phase on its own: consent, approval and denial for known
\* and unknown clients, any redirect_uri and any PKCE pair, next to the
\* deactivation of a client.
NextAuthorize ==
  \/ \E p \in Procs : Return(p)
  \/ \E p \in Procs, rt \in ResponseTypes, c \in {"c1", "c0"}, u \in RedirectUris,
        pk \in AuthorizePkce :
       calls < MaxGrantCalls /\ authorize_get(p, rt, c, u, pk)
  \/ \E p \in Procs, c \in {"c1", "c0"}, u \in RedirectUris, pk \in AuthorizePkce,
        usr \in UserIds :
       calls < MaxGrantCalls /\ authorize_approve_get_client(p, c, u, pk, usr)
  \/ \E p \in Procs : authorize_approve_create(p)
  \/ \E p \in Procs, u \in RedirectUris : authorize_deny(p, u)
  \/ \E p \in Procs, c \in {"c1", "c0"} : deactivate_client_get_by_id(p, c)
  \/ \E p \in Procs : deactivate_client_update(p)

SpecAuthorize == Init /\ [][NextAuthorize]_vars

\* Everything that writes the token table: the password and client-credentials
\* grants with and without requested scopes, the refresh grant and revocation.
NextRows ==
  \/ \E p \in Procs : Return(p)
  \/ \E p \in Procs, s \in RequestedScopes :
       calls < MaxGrantCalls
         /\ pg_authenticate_client(p, "alice", "Password1!", "c1", "s1", s)
  \/ \E p \in Procs : pg_authenticate_user(p)
  \/ \E p \in Procs : pg_token_create(p)
  \/ \E p \in Procs, s \in RequestedScopes : ccg_authenticate(p, "c1", "s1", s)
  \/ \E p \in Procs : ccg_token_create(p)
  \/ \E p \in Procs, t \in Presentable :
       calls < MaxGrantCalls /\ rtg_authenticate(p, t, "c1", "s1")
  \/ \E p \in Procs : rtg_get_by_refresh_token(p)
  \/ \E p \in Procs : rtg_revoke(p)
  \/ \E p \in Procs : rtg_token_create(p)
  \/ \E p \in Procs, t \in Presentable :
       calls < MaxGrantCalls /\ rv_lookup_first(p, t, Null)
  \/ \E p \in Procs : rv_lookup_second(p)
  \/ \E p \in Procs : rv_cache_delete(p)
  \/ \E p \in Procs : rv_revoke(p)

SpecRows == Init /\ [][NextRows]_vars

\* Two clients that both hold the refresh_token grant, each with its own secret,
\* and a wrong secret.
BindingCredentials == {<<"c1", "s1">>, <<"c3", "s3">>, <<"c3", "bad">>}

\* Tokens issued to c1, then presented for refresh and for revocation by c1 and
\* by another authenticated client.
NextBinding ==
  \/ \E p \in Procs : Return(p)
  \/ \E p \in Procs :
       calls < MaxGrantCalls
         /\ pg_authenticate_client(p, "alice", "Password1!", "c1", "s1", <<>>)
  \/ \E p \in Procs : pg_authenticate_user(p)
  \/ \E p \in Procs : pg_token_create(p)
  \/ \E p \in Procs, t \in Presentable, cs \in BindingCredentials :
       calls < MaxGrantCalls /\ rtg_authenticate(p, t, cs[1], cs[2])
  \/ \E p \in Procs : rtg_get_by_refresh_token(p)
  \/ \E p \in Procs : rtg_revoke(p)
  \/ \E p \in Procs : rtg_token_create(p)
  \/ \E p \in Procs, t \in Presentable, cs \in BindingCredentials :
       revoke_endpoint_authenticate(p, t, Null, cs[1], cs[2])
  \/ \E p \in Procs : revoke_endpoint_lookup_first(p)
  \/ \E p \in Procs : rv_lookup_second(p)
  \/ \E p \in Procs : rv_cache_delete(p)
  \/ \E p \in Procs : rv_revoke(p)

SpecBinding == Init /\ [][NextBinding]_vars

\* The token requests presented for a code of c1: the matching one, and one
\* for each way of not matching (another client, another redirect_uri, no
\* verifier, a wrong verifier).
MismatchRequests ==
  { <<"c1", "s1", "https://app/cb", V1>>,
    <<"c2", "s2", "https://app/cb", V1>>,
    <<"c1", "s1", "https://evil/cb", V1>>,
    <<"c1", "s1", "https://app/cb", Null>>,
    <<"c1", "s1", "https://app/cb", "wrong">> }

\* Codes issued to c1 with and without PKCE, redeemed with matching and
\* non-matching requests, as time passes.
NextMismatch ==
  \/ Tick
  \/ \E p \in Procs : Return(p)
  \/ \E p \in Procs, pk \in {<<Null, Null>>, <<base64url_nopad_sha256(V1), "S256">>},
        usr \in UserIds :
       authorize_approve_get_client(p, "c1", "https://app/cb", pk, usr)
  \/ \E p \in Procs : authorize_approve_create(p)
  \/ \E p \in Procs, code \in 1..(nextCode - 1), r \in MismatchRequests :
       acg_authenticate(p, code, r[1], r[2], r[3], r[4])
  \/ \E p \in Procs : acg_get_by_code(p)
  \/ \E p \in Procs : acg_delete_invalid(p)
  \/ \E p \in Procs : acg_mark_as_used(p)
  \/ \E p \in Procs : acg_token_create(p)
  \/ \E p \in Procs : acg_delete(p)

SpecMismatch == Init /\ [][NextMismatch]_vars

\* The three grants made on behalf of a user, next to the deactivation of
\* that user.
NextInactive ==
  \/ \E p \in Procs : Return(p)
  \/ \E p \in Procs :
       calls < MaxGrantCalls
         /\ pg_authenticate_client(p, "alice", "Password1!", "c1", "s1", <<>>)
  \/ \E p \in Procs : pg_authenticate_user(p)
  \/ \E p \in Procs : pg_token_create(p)
  \/ \E p \in Procs, t \in Presentable :
       calls < MaxGrantCalls /\ rtg_authenticate(p, t, "c1", "s1")
  \/ \E p \in Procs : rtg_get_by_refresh_token(p)
  \/ \E p \in Procs : rtg_revoke(p)
  \/ \E p \in Procs : rtg_token_create(p)
  \/ \E p \in Procs, usr \in UserIds :
       calls < MaxGrantCalls
         /\ authorize_approve_get_client(p, "c1", "https://app/cb", <<Null, Null>>, usr)
  \/ \E p \in Procs : authorize_approve_create(p)
  \/ \E p \in Procs, code \in 1..(nextCode - 1) :
       calls < MaxGrantCalls /\ acg_authenticate(p, code, "c1", "s1", "https://app/cb", Null)
  \/ \E p \in Procs : acg_get_by_code(p)
  \/ \E p \in Procs : acg_delete_invalid(p)
  \/ \E p \in Procs : acg_mark_as_used(p)
  \/ \E p \in Procs : acg_token_create(p)
  \/ \E p \in Procs : acg_delete(p)
  \/ \E p \in Procs, u \in UserIds : deactivate_user_get_by_id(p, u)
  \/ \E p \in Procs : deactivate_user_update(p)

SpecInactive == Init /\ [][NextInactive]_vars

PkceChallenges ==
  {Null} \cup PkceVerifiers \cup {base64url_nopad_sha256(v) : v \in PkceVerifiers}

InitPkce ==
  /\ InitStore
  /\ pkce \in [challenge : PkceChallenges, method : PkceMethods,
               verifier : PkceVerifiers, validated : {FALSE}, result : {FALSE}]

\* auth_code.validate_pkce(code_verifier) on a stored code.
pkce_validate ==
  /\ ~pkce.validated
  /\ LET auth_code == [code_challenge |-> pkce.challenge,
                       code_challenge_method |-> pkce.method]
     IN pkce' = [pkce EXCEPT !.validated = TRUE,
                             !.result = validate_pkce(auth_code, pkce.verifier)]
  /\ UNCHANGED <<now, admin, codes, tokens, cache, nextCode, nextTok, proc, history, calls>>

NextPkce == pkce_validate

SpecPkce == InitPkce /\ [][NextPkce]_vars

\* ------------------------------------------------------------------ claims
InGrant(p) == proc[p].pc # "idle" /\ proc[p].op = "authorization_code_grant"
FinishedGrant(p) == proc[p].pc = "done" /\ proc[p].op = "authorization_code_grant"

\* C1: two concurrent authorization_code_grant calls presenting the same code
\* yield exactly one token and one failure; in particular a call never returns a
\* token for a code on which a call overlapping it has already returned one.
C1_ConcurrentRedemptionAtMostOneToken ==
  \A p \in Procs :
    (FinishedGrant(p) /\ IsToken(proc[p].result))
    => ~(\E h \in redeemed : h.code = proc[p].code /\ p \in h.live)

\* C2: an authorization_code_grant invoked once the code is terminal (redeemed,
\* deleted, marked used or expired) never reaches the minting steps, and returns
\* None (invalid_grant).
C2_TerminalCodeYieldsNoToken ==
  \A p \in Procs :
    (InGrant(p) /\ proc[p].late)
    => /\ proc[p].pc \notin {"acg_mark_as_used", "acg_token_create", "acg_delete"}
       /\ (proc[p].pc = "done" => proc[p].result = None)

\* A second redemption, by an authenticated client, of a code already redeemed.
C2_Witness ==
  \E p \in Procs :
    /\ FinishedGrant(p) /\ proc[p].late
    /\ \E h \in redeemed : h.code = proc[p].code
    /\ proc[p].why = "absent"

\* The verifier matches the stored challenge, as the PKCE rule states it.
PkceMatches(auth_code, code_verifier) ==
  auth_code.code_challenge =
    (IF auth_code.code_challenge_method = "S256"
     THEN base64url_nopad_sha256(code_verifier)
     ELSE code_verifier)

\* C10: a grant on a code with a non-null code_challenge passes the PKCE check
\* (and so mints, stores or returns a token) only with a verifier that matches.
C10_ChallengeNeedsMatchingVerifier ==
  \A p \in Procs :
    (/\ InGrant(p)
     /\ \/ proc[p].pc \in {"acg_mark_as_used", "acg_token_create", "acg_delete"}
        \/ (proc[p].pc = "done" /\ IsToken(proc[p].result))
     /\ proc[p].auth_code.code_challenge # Null)
    => /\ Truthy(proc[p].code_verifier)
       /\ PkceMatches(proc[p].auth_code, proc[p].code_verifier)

\* A grant refused at the PKCE check: the code carries a challenge and the
\* verifier presented does not match it; no token row exists.
C10_Witness ==
  \E p \in Procs :
    /\ FinishedGrant(p)
    /\ proc[p].why = "pkce"
    /\ proc[p].auth_code.code_challenge # Null
    /\ ~PkceMatches(proc[p].auth_code, proc[p].code_verifier)
    /\ proc[p].result = None
    /\ tokens = {}

InRefresh(p) == proc[p].pc # "idle" /\ proc[p].op = "refresh_token_grant"
InIntrospect(p) == proc[p].pc # "idle" /\ proc[p].op = "introspect_token"
InRevoke(p) == proc[p].pc # "idle" /\ proc[p].op = "revoke_token"

\* C3: once a refresh_token_grant presenting r has succeeded, a later
\* refresh_token_grant presenting r deletes and stores no token row and returns
\* None (invalid_grant).
C3_RotatedRefreshTokenRejected ==
  \A p \in Procs :
    (InRefresh(p) /\ proc[p].late)
    => /\ proc[p].pc \notin {"rtg_revoke", "rtg_token_create"}
       /\ (proc[p].pc = "done" => proc[p].result = None)

\* C4: of two concurrent refresh_token_grant calls presenting the same refresh
\* token, at most one returns a new token pair.
C4_ConcurrentRefreshAtMostOnePair ==
  \A p \in Procs :
    (InRefresh(p) /\ proc[p].pc = "done" /\ IsToken(proc[p].result))
    => ~(\E h \in rotated : h.refresh_token = proc[p].refresh_token /\ p \in h.live)

\* C5: an introspect_token(t) that starts after revoke_token(t) has returned
\* answers {active: false}.
C5_IntrospectAfterRevokeInactive ==
  \A p \in Procs :
    (InIntrospect(p) /\ proc[p].pc = "done" /\ proc[p].after_revoke)
    => ~proc[p].result.active

\* C6: whenever the cache holds the introspection entry of t, a token row with
\* access_token t exists and is not expired.
C6_CacheHitImpliesActiveRow ==
  \A e \in cache :
    \E r \in tokens : r.access_token = e.key /\ ~Token_is_expired(r, now)

\* C7: within one revoke_token call that finds the token, the cache entry is
\* deleted only once the token row has been deleted.
C7_CacheDeleteAfterRowDelete ==
  \A p \in Procs : (InRevoke(p) /\ proc[p].cache_deleted) => proc[p].row_deleted

\* C8: every revoke_token call returns True, concurrent calls on the same token
\* included, and a call on a token already revoked deletes nothing.
C8_RevokeAlwaysTrue ==
  \A p \in Procs :
    InRevoke(p)
    => /\ (proc[p].pc = "done" => proc[p].result = Returned(TRUE))
       /\ (proc[p].late => proc[p].pc \notin {"rv_cache_delete", "rv_revoke"})

\* C9 as stated: validate_pkce is true iff the challenge equals
\* base64url_nopad(sha256(verifier)) when the method is "S256", and equals the
\* verifier itself for any other method value, "plain" and an absent method alike.
C9_PkceIffFormula ==
  pkce.validated
  => (pkce.result <=>
        pkce.challenge = (IF pkce.method = "S256"
                          THEN base64url_nopad_sha256(pkce.verifier)
                          ELSE pkce.verifier))

\* C9: validate_pkce is true iff the stored challenge is absent, or the method is
\* "S256" and the challenge equals base64url_nopad(sha256(verifier)), or the
\* method is "plain" and the challenge equals the verifier; with a challenge
\* stored and any other method, an absent one included, it is false.
C9_PkceIffAbsentOrKnownMethodMatch ==
  pkce.validated
  => (pkce.result <=>
        \/ ~Truthy(pkce.challenge)
        \/ /\ pkce.method = "S256"
           /\ pkce.challenge = base64url_nopad_sha256(pkce.verifier)
        \/ /\ pkce.method = "plain"
           /\ pkce.challenge = pkce.verifier)

\* The check has refused a verifier equal to the stored challenge, the method
\* being absent.
C9_Witness ==
  /\ pkce.validated
  /\ pkce.method = Null
  /\ pkce.challenge = pkce.verifier
  /\ ~pkce.result

Registered(client_id, redirect_uri) ==
  \E c \in clients : c.id = client_id /\ redirect_uri \in Range(c.redirect_uris)

\* C11: the authorization phase (GET /authorize, POST /authorize/approve)
\* accepts a redirect_uri only if it is a member of the client's registered
\* redirect_uris, so every stored authorization code carries a redirect_uri
\* registered for its client.
C11_RedirectUriRegistered ==
  /\ \A r \in codes : Registered(r.client_id, r.redirect_uri)
  /\ \A p \in Procs :
       (/\ proc[p].pc \in {"approve_create", "done"}
        /\ proc[p].op \in {"authorize", "authorize_approve"}
        /\ (proc[p].pc = "done" => proc[p].why \in {"consent", "redirect"}))
       => Registered(proc[p].client_id, proc[p].redirect_uri)

\* An approval refused for an unregistered redirect_uri, no code stored for it.
C11_Witness ==
  /\ \E p \in Procs :
       /\ proc[p].pc = "done" /\ proc[p].op = "authorize_approve"
       /\ proc[p].why = "redirect_uri"
       /\ proc[p].redirect_uri = "https://evil/cb"
       /\ proc[p].result = [error |-> "invalid_request"]
  /\ \A r \in codes : r.redirect_uri # "https://evil/cb"

\* C12: authorization_code_grant passes its checks, and so returns a token or
\* stores a token row, only if the redirect_uri presented equals the one stored
\* with the code.
C12_RedirectUriMustEqualStored ==
  \A p \in Procs :
    (/\ InGrant(p)
     /\ \/ proc[p].pc \in {"acg_mark_as_used", "acg_token_create", "acg_delete"}
        \/ (proc[p].pc = "done" /\ IsToken(proc[p].result)))
    => proc[p].redirect_uri = proc[p].auth_code.redirect_uri

\* A redemption refused because the redirect_uri differs from the stored one;
\* no token row exists.
C12_Witness ==
  \E p \in Procs :
    /\ FinishedGrant(p)
    /\ proc[p].why = "redirect_uri"
    /\ proc[p].redirect_uri # proc[p].auth_code.redirect_uri
    /\ proc[p].result = None
    /\ tokens = {}

\* C17: introspect_token of a stored, validly signed access token read at the
\* instant now = expires_at answers {active: false}.
C17_TokenAtExpiryInactive ==
  \A p \in Procs :
    (InIntrospect(p) /\ proc[p].pc = "done" /\ proc[p].at_expiry)
    => ~proc[p].result.active

\* C18: a code read for redemption at the instant now = expires_at counts as
\* expired: the grant mints nothing and returns None.
C18_CodeAtExpiryIsExpired ==
  \A p \in Procs :
    (InGrant(p) /\ proc[p].at_expiry)
    => /\ proc[p].pc \notin {"acg_mark_as_used", "acg_token_create", "acg_delete"}
       /\ (proc[p].pc = "done" => proc[p].result = None)

\* ------------------------------------------------- grants: errors and scopes
FinishedTokenCall(p) == proc[p].pc = "done" /\ proc[p].op \in DOMAIN GrantTypes
FinishedPassword(p) == proc[p].pc = "done" /\ proc[p].op = "password_grant"
FinishedClientCredentials(p) ==
  proc[p].pc = "done" /\ proc[p].op = "client_credentials_grant"

\* C13: the token endpoint answers invalid_client when client authentication
\* failed (whatever the grant type), unauthorized_client when the authenticated
\* client lacks the grant type, and invalid_grant when the password grant could
\* not authenticate the user.
C13_ErrorCodeByFailureKind ==
  \A p \in Procs :
    FinishedTokenCall(p) =>
      /\ proc[p].why = "client_auth" => proc[p].response = [error |-> "invalid_client"]
      /\ proc[p].why = "grant_type" => proc[p].response = [error |-> "unauthorized_client"]
      /\ proc[p].why = "user_auth" => proc[p].response = [error |-> "invalid_grant"]

\* C14: a token issued by password_grant or client_credentials_grant carries
\* the client's scopes when none were requested, and otherwise the requested
\* scopes that the client is registered with.
C14_ScopesAreRequestedWithinClient ==
  \A p \in Procs :
    ((FinishedPassword(p) \/ FinishedClientCredentials(p)) /\ IsToken(proc[p].result))
    => Range(proc[p].result.scopes) =
         IF proc[p].scopes = <<>>
         THEN Range(proc[p].client.scopes)
         ELSE Range(proc[p].scopes) \cap Range(proc[p].client.scopes)

\* C15: password_grant and client_credentials_grant return a token only to a
\* confidential client.
C15_OnlyConfidentialClients ==
  \A p \in Procs :
    ((FinishedPassword(p) \/ FinishedClientCredentials(p)) /\ IsToken(proc[p].result))
    => proc[p].client.is_confidential

\* C16: a token row built by client_credentials_grant, and every stored row
\* owned by a client itself, has no refresh token and has the client's id as
\* user_id.
C16_ClientCredentialsRowHasNoRefreshToken ==
  /\ \A p \in Procs :
        LET created == IF proc[p].pc = "ccg_token_create" THEN proc[p].token
                       ELSE proc[p].result
        IN (/\ proc[p].pc # "idle" /\ proc[p].op = "client_credentials_grant"
            /\ IsToken(created))
           => /\ created.refresh_token = None
              /\ created.user_id = proc[p].client.id
              /\ created.client_id = proc[p].client.id
  /\ \A r \in tokens : r.user_id \in ClientIds => r.refresh_token = None

\* client_credentials_grant has returned its row, stored without a refresh
\* token and owned by the client, and a refresh grant presenting that row's
\* access token has been refused.
C16_Witness ==
  /\ \E r \in tokens : r.user_id = r.client_id /\ r.refresh_token = None
  /\ \E p \in Procs :
        /\ proc[p].pc = "done" /\ proc[p].op = "refresh_token_grant"
        /\ proc[p].result = None
        /\ \E r \in tokens : r.user_id = r.client_id /\ r.access_token = proc[p].refresh_token

\* ------------------------------------------------ users and clients switched off
\* C19: password_grant gets a user from authenticate_user, and goes on to mint
\* and return a token, exactly when at that step the username exists, the
\* password verifies and the user is active; a deactivated user gets no token,
\* a reactivated one does.
C19_AuthenticateUserIffExistsVerifiesActive ==
  \A p \in Procs :
    (proc[p].pc # "idle" /\ proc[p].op = "password_grant")
        => /\ proc[p].pc = "pg_token_create" => proc[p].user_ok
           /\ (proc[p].pc = "done" /\ proc[p].why = "user_auth") => ~proc[p].user_ok
           /\ (proc[p].pc = "done" /\ proc[p].why \in {"token", "IntegrityError"})
                => proc[p].user_ok

\* alice is deactivated, and a password grant with her right password and a
\* client in order has been refused at the user check.
C19_Witness ==
  /\ \E u \in users : u.username = "alice" /\ ~u.is_active
  /\ \E p \in Procs :
        /\ FinishedPassword(p)
        /\ proc[p].why = "user_auth"
        /\ proc[p].result = None
        /\ proc[p].client_ok

\* C20: each of the four grants is refused at client authentication exactly
\* when, at that step, the client does not exist, is not active or the secret
\* does not verify; a grant called for a deactivated client goes no further
\* and neither mints nor returns a token.
C20_AuthenticateClientIffExistsActiveVerifies ==
  \A p \in Procs :
    (proc[p].pc # "idle" /\ proc[p].op \in DOMAIN GrantTypes)
    => /\ (proc[p].pc = "done" /\ proc[p].why = "client_auth") <=> ~proc[p].client_ok
       /\ ~proc[p].client_ok => proc[p].result = None

\* c1 is deactivated with a code of its own still stored, and the redemption
\* of a code has been refused at client authentication; no token row exists.
C20_Witness ==
  /\ \E c \in clients : c.id = "c1" /\ ~c.is_active
  /\ \E r \in codes : r.client_id = "c1"
  /\ tokens = {}
  /\ \E p \in Procs : FinishedGrant(p) /\ proc[p].why = "client_auth"

\* ------------------------------------------------------------ registration
\* C21: no two stored users share a username or an email, and a create_user
\* called with a username or an email that is already stored ends in an error
\* and adds no user.
C21_UsernameAndEmailUnique ==
  /\ \A u, v \in users : (u.username = v.username \/ u.email = v.email) => u = v
  /\ \A p \in Procs :
        (proc[p].pc = "done" /\ proc[p].op = "create_user" /\ proc[p].existed)
        => proc[p].result = Raised /\ proc[p].added = {}

\* Two overlapping create_user calls for the free name bob both passed the
\* two lookups; one stored bob and the other failed at the commit.
C21_Witness ==
  /\ Cardinality({u \in users : u.username = "bob"}) = 1
  /\ \E p \in Procs :
        /\ proc[p].pc = "done" /\ proc[p].op = "create_user"
        /\ proc[p].why = "IntegrityError" /\ ~proc[p].existed

C23_ValidateClientGrantIff ==
  [][\A p \in Procs :
       (proc[p].pc = "idle" /\ proc'[p].pc = "done"
          /\ proc'[p].op = "validate_client_grant")
       => /\ (proc'[p].result = Returned(TRUE))
             <=> \E c \in clients :
                   /\ c.id = proc'[p].client_id
                   /\ c.is_active
                   /\ proc'[p].grant_type \in Range(c.grant_types)
                   /\ Truthy(proc'[p].redirect_uri)
                        => proc'[p].redirect_uri \in Range(c.redirect_uris)
          /\ proc'[p].result \in {Returned(TRUE), Returned(FALSE)}
          /\ UNCHANGED <<clients, users, codes, tokens, cache>>]_vars

\* c1 has been deactivated, and a question about c1 with a grant type and a
\* redirect URI it is registered with was answered false.
C23_Witness ==
  /\ \E c \in clients : c.id = "c1" /\ ~c.is_active
  /\ \E p \in Procs :
        /\ proc[p].pc = "done" /\ proc[p].op = "validate_client_grant"
        /\ proc[p].client_id = "c1" /\ proc[p].grant_type = "password"
        /\ proc[p].redirect_uri = "https://app/cb"
        /\ proc[p].result = Returned(FALSE)

\* ------------------------------------------------- redemption, step by step
\* C24: the token authorization_code_grant mints, stores and returns carries
\* the client_id, user_id and scopes of the code row it read, and the grant
\* gets that far only when the requesting client's id is the code's client_id.
C24_TokenCarriesCodeFields ==
  \A p \in Procs :
    InGrant(p)
    => LET f == proc[p]
           minted == IF f.pc \in {"acg_token_create", "acg_delete"} THEN f.token
                     ELSE IF f.pc = "done" THEN f.result ELSE None
       IN /\ f.pc \in {"acg_mark_as_used", "acg_token_create", "acg_delete"}
               => f.client_id = f.auth_code.client_id
          /\ IsToken(minted)
               => /\ minted.client_id = f.auth_code.client_id
                  /\ minted.user_id = f.auth_code.user_id
                  /\ minted.scopes = f.auth_code.scopes
                  /\ f.pc \in {"acg_delete", "done"} => minted \in tokens

\* Client c2, authenticated and holding the grant type, presented a code
\* issued to c1 and was refused; no token row exists.
C24_Witness ==
  /\ tokens = {}
  /\ \E p \in Procs :
        /\ FinishedGrant(p) /\ proc[p].why = "client_id"
        /\ proc[p].auth_code.client_id = "c1"

\* C25: a grant past client authentication and the grant-type check that reads
\* a code row expired or marked used goes on to delete that row and nothing
\* else; the delete removes the row, leaves the token store alone, and the
\* call ends in invalid_grant.
C25_ExpiredOrUsedCodeDeleted ==
  [][\A p \in Procs :
       /\ (/\ proc[p].pc = "acg_get_by_code" /\ proc'[p] # proc[p]
           /\ \E r \in codes : r.code = proc[p].code /\ (r.is_used \/ now > r.expires_at))
          => proc'[p].pc = "acg_delete_invalid" /\ tokens' = tokens
       /\ (proc[p].pc = "acg_delete_invalid" /\ proc'[p] # proc[p])
          => /\ \A r \in codes' : r.code # proc[p].code
             /\ tokens' = tokens
             /\ proc'[p].pc = "done"
             /\ proc'[p].result = None
             /\ proc'[p].response = [error |-> "invalid_grant"]]_vars

\* A code left marked used was presented again: its row is deleted, the call
\* was refused, and no code row is left.
C25_Witness ==
  /\ codes = {}
  /\ \E p \in Procs : FinishedGrant(p) /\ proc[p].why = "used" /\ proc[p].result = None

\* C26: in a grant that gets as far as minting, the code row is marked used
\* (or already gone) before the token is minted or stored, and once the token
\* is returned the code row no longer exists.
C26_MarkedUsedThenDeleted ==
  \A p \in Procs :
    InGrant(p)
    => LET f == proc[p] IN
       /\ f.pc \in {"acg_token_create", "acg_delete"}
            => /\ IsToken(f.token)
               /\ \A r \in codes : r.id = f.auth_code.id => r.is_used
       /\ (f.pc = "done" /\ IsToken(f.result))
            => /\ \A r \in codes : r.id # f.auth_code.id
               /\ f.result \in tokens

\* A redemption has returned its token: the token row is stored and the code
\* row is gone.
C26_Witness ==
  /\ codes = {}
  /\ \E p \in Procs :
        FinishedGrant(p) /\ IsToken(proc[p].result) /\ proc[p].result \in tokens

\* ------------------------------------------------------------ refresh grant
\* C27: refresh_token_grant goes past its first step only for a string that
\* this server signed, that has not expired and whose type is "refresh", and
\* past its lookup only when a stored row holds the string as refresh_token;
\* up to there it writes nothing, a refusal returns None, and a token is
\* returned only by a call that passed both.
C27_RefreshNeedsStoredRefreshToken ==
  [][\A p \in Procs :
       /\ (proc[p].pc = "idle" /\ proc'[p].pc # "idle"
             /\ proc'[p].op = "refresh_token_grant")
          => /\ tokens' = tokens
             /\ LET t == proc'[p].refresh_token IN
                IF t.type = "refresh" /\ t # Garbage /\ t.exp >= now
                THEN proc'[p].pc \in {"rtg_get_by_refresh_token", "done"}
                ELSE proc'[p].pc = "done" /\ proc'[p].result = None
       /\ (proc[p].pc = "rtg_get_by_refresh_token" /\ proc'[p] # proc[p])
          => /\ tokens' = tokens
             /\ IF \E r \in tokens : r.refresh_token = proc[p].refresh_token
                THEN proc'[p].pc = "rtg_revoke"
                ELSE proc'[p].pc = "done" /\ proc'[p].result = None
       /\ (proc'[p].pc = "done" /\ proc'[p].op = "refresh_token_grant"
             /\ IsToken(proc'[p].result))
          => proc[p].pc = "rtg_token_create"]_vars

\* With a token row stored, a refresh grant presenting a refresh token whose
\* row had been deleted was refused at the lookup.
C27_Witness ==
  /\ tokens # {}
  /\ \E p \in Procs :
        /\ InRefresh(p) /\ proc[p].pc = "done" /\ proc[p].why = "absent"
        /\ proc[p].result = None
        /\ proc[p].refresh_token.type = "refresh"
        /\ \A r \in tokens : r.refresh_token # proc[p].refresh_token

\* C28: when a grant fails after it has written, its writes are undone: after
\* a refresh_token_grant that failed at the insert of the new row the old row
\* it deleted is stored again, and after an authorization_code_grant that
\* failed at the insert the code row is stored and not marked used.
C28_FailedGrantRolledBack ==
  [][\A p \in Procs :
       /\ (proc[p].pc = "rtg_token_create" /\ proc'[p].pc = "done"
             /\ proc'[p].result = Raised)
          => \E r \in tokens' : r.id = proc[p].existing_token.id
       /\ (proc[p].pc = "acg_token_create" /\ proc'[p].pc = "done"
             /\ proc'[p].result = Raised)
          => \E r \in codes' : r.id = proc[p].auth_code.id /\ ~r.is_used]_vars

\* -------------------------------------------------------------- the cache
\* C29: a failing cache call is swallowed: introspect_token still returns an
\* answer, and revoke_token still deletes the row it found and returns.
C29_CacheFailureSwallowed ==
  \A p \in Procs :
    /\ (InIntrospect(p) /\ proc[p].pc = "done") => proc[p].result # Raised
    /\ (InRevoke(p) /\ proc[p].pc = "done")
         => /\ proc[p].result # Raised
            /\ \A r \in tokens : r.id \notin proc[p].held

\* C30: introspect_token never touches the token store; it decides to write
\* the cache only on reading a stored row with a remaining lifetime above
\* zero, the TTL it then passes is no more than the lifetime it computed from
\* that row, and it answers active afterwards; an invocation that answers
\* {active: false} has written nothing.
C30_CacheWriteOnlyWhenActive ==
  [][\A p \in Procs :
       (proc'[p] # proc[p] /\ proc'[p].pc # "idle" /\ proc'[p].op = "introspect_token")
       => /\ tokens' = tokens
          /\ proc'[p].pc = "it_cache_set"
               => \E r \in tokens :
                    /\ r.access_token = proc'[p].token
                    /\ r.expires_at - now > 0
                    /\ proc'[p].ttl > 0
                    /\ proc'[p].ttl <= r.expires_at - now
          /\ cache' # cache
               => /\ proc[p].pc = "it_cache_set"
                  /\ cache' = CacheWithout(proc[p].token)
                                 \cup {[key |-> proc[p].token, expires |-> now + proc[p].ttl]}
                  /\ proc'[p].pc = "done"
                  /\ proc'[p].result # Raised /\ proc'[p].result.active
          /\ (proc'[p].pc = "done" /\ proc'[p].result # Raised /\ ~proc'[p].result.active)
               => proc[p].pc \in {"idle", "it_get_by_access_token"} /\ cache' = cache]_vars

\* An introspection answered active from the token store and its cache entry
\* is in place.
C30_Witness ==
  \E p \in Procs :
    /\ InIntrospect(p) /\ proc[p].pc = "done" /\ proc[p].why = "active"
    /\ proc[p].result # Raised /\ proc[p].result.active
    /\ CacheHas(proc[p].token)
    /\ \E r \in tokens : r.access_token = proc[p].token

\* ------------------------------------------------------------------ C31
\* C31: the authorization phase goes on for a client only if that client exists,
\* is active and has "authorization_code" among its grant_types: GET /authorize
\* answers with the consent payload, and POST /authorize/approve goes on to
\* create the code row, only when the client it has just read is such a client.
C31_AuthorizeOnlyActiveGrantedClient ==
  [][\A p \in Procs :
       (/\ proc[p].pc = "idle"
        /\ \/ proc'[p].pc = "approve_create"
           \/ /\ proc'[p].pc = "done"
              /\ proc'[p].op = "authorize"
              /\ proc'[p].why = "consent")
       => \E c \in clients :
            /\ c.id = proc'[p].client_id
            /\ c.is_active
            /\ validate_grant_type(c, "authorization_code")]_vars

\* ------------------------------------------------------------------ C32
\* C32: every redirect answered by an authorization endpoint (the code redirect
\* of the approval, the access_denied redirect of the denial) goes to a
\* redirect URI that some client has registered.
C32_RedirectTargetsRegisteredUri ==
  \A p \in Procs :
    (/\ proc[p].pc = "done"
     /\ proc[p].op \in {"authorize_approve", "authorize_deny"}
     /\ "redirect" \in DOMAIN proc[p].response)
    => \E c \in clients : validate_redirect_uri(c, proc[p].response.redirect)

\* ------------------------------------------------------------------ C33
\* C33: every stored authorization code that has a code_challenge has
\* "S256" or "plain" as its code_challenge_method.
C33_StoredChallengeHasKnownMethod ==
  \A r \in codes :
    r.code_challenge # Null => r.code_challenge_method \in {"S256", "plain"}

\* ------------------------------------------------------------------ C34
\* C34: the scopes of every stored token and of every stored authorization
\* code are among the scopes registered for the row's client.
C34_StoredScopesWithinClient ==
  /\ \A r \in codes : \A c \in clients :
       c.id = r.client_id => Range(r.scopes) \subseteq Range(c.scopes)
  /\ \A r \in tokens : \A c \in clients :
       c.id = r.client_id => Range(r.scopes) \subseteq Range(c.scopes)

\* ------------------------------------------------------------------ C35
\* C35: token rows are immutable and unique.  Every step leaves each stored
\* token row as it was or deletes it, and after every step no two rows share
\* an id, an access_token or a refresh_token that is not None.
C35_TokenRowsImmutableAndUnique ==
  [][/\ \A r \in tokens : r \in tokens' \/ ~(\E s \in tokens' : s.id = r.id)
     /\ \A r, s \in tokens' :
          r # s => /\ r.id # s.id
                   /\ r.access_token # s.access_token
                   /\ r.refresh_token # None => r.refresh_token # s.refresh_token]_vars

\* The first row has been deleted and a later row, one without a refresh
\* token, is stored.
C35_Witness ==
  /\ ~(\E r \in tokens : r.id = 1)
  /\ \E r \in tokens : r.id > 1 /\ r.refresh_token = None

\* ------------------------------------------------------------------ C36
\* C36: when revoke_token has found the row by the refresh-token value
\* presented, its cache deletion leaves no introspection entry for that row's
\* access token.
C36_RevokeByRefreshClearsAccessEntry ==
  [][\A p \in Procs :
       (/\ InRevoke(p)
        /\ proc[p].pc = "rv_cache_delete"
        /\ proc'[p].pc = "rv_revoke"
        /\ proc[p].token = proc[p].token_entity.refresh_token)
       => ~(\E e \in cache' : e.key = proc[p].token_entity.access_token)]_vars

\* ------------------------------------------------------------------ C37
\* C37: refresh_token_grant goes past the lookup of the stored row (to the
\* deletion of that row and the minting of the new pair) only when the
\* authenticated client is the client the row was issued to.
C37_RefreshOnlyByIssuedClient ==
  [][\A p \in Procs :
       (/\ InRefresh(p)
        /\ proc[p].pc = "rtg_revoke"
        /\ proc'[p].pc = "rtg_token_create")
       => /\ proc[p].client.id = proc[p].existing_token.client_id
          /\ proc[p].client.id = proc[p].token_payload.client_id]_vars

\* ------------------------------------------------------------------ C38
\* C38: a revocation made through POST /oauth2/revoke deletes a cache entry or
\* a token row only when the client authenticated at the endpoint is the client
\* the row found was issued to.
C38_RevokeOnlyByIssuedClient ==
  [][\A p \in Procs :
       (/\ InRevoke(p)
        /\ proc[p].pc \in {"rv_cache_delete", "rv_revoke"}
        /\ proc'[p] # proc[p])
       => proc[p].client.id = proc[p].token_entity.client_id]_vars

\* ------------------------------------------------------------------ C39
\* The row of the code presented by the grant f is stored, unexpired and unused.
CodeRedeemable(f) ==
  LET ac == get_by_code(f.code) IN
  /\ ac # None
  /\ ~AuthorizationCode_is_expired(ac, now)
  /\ ~ac.is_used

\* The request does not match the row: another client, another redirect_uri, no
\* code_verifier for a stored challenge, or a verifier that fails validate_pkce.
RequestMismatch(f) ==
  LET ac == get_by_code(f.code) IN
  \/ ac.client_id # f.client_id
  \/ ac.redirect_uri # f.redirect_uri
  \/ Truthy(ac.code_challenge) /\ ~Truthy(f.code_verifier)
  \/ Truthy(ac.code_challenge) /\ ~validate_pkce(ac, f.code_verifier)

\* C39: an authorization_code_grant that reads an unexpired, unused code row
\* which its client_id, redirect_uri or code_verifier does not match ends there
\* with no token, and the code rows are left exactly as they were (neither
\* marked used nor deleted); a request that matches such a row goes on to
\* redeem it.
C39_MismatchLeavesCodeUnchanged ==
  [][\A p \in Procs :
       (/\ InGrant(p)
        /\ proc[p].pc = "acg_get_by_code"
        /\ proc'[p] # proc[p]
        /\ CodeRedeemable(proc[p]))
       => IF RequestMismatch(proc[p])
          THEN /\ proc'[p].pc = "done"
               /\ proc'[p].result = None
               /\ codes' = codes
          ELSE proc'[p].pc = "acg_mark_as_used"]_vars

\* A grant has just failed on a PKCE mismatch and the code it read is still
\* stored, unused and unexpired.
C39_Witness ==
  \E p \in Procs :
    /\ InGrant(p)
    /\ proc[p].pc = "done"
    /\ proc[p].why = "pkce"
    /\ proc[p].auth_code \in codes
    /\ ~proc[p].auth_code.is_used
    /\ ~AuthorizationCode_is_expired(proc[p].auth_code, now)

\* ------------------------------------------------------------------ C40
\* The user row of that id is stored and active.
UserActive(user_id) == \E u \in users : u.id = user_id /\ u.is_active

\* C40: the refresh grant and the authorization-code grant mint a token only
\* for a user who is active at that moment: the step at which either grant
\* builds the new token is taken only when the user the token is for (the sub
\* of the refresh claims, the user_id of the code) is stored and active.
C40_NoTokenForInactiveUser ==
  [][\A p \in Procs :
       /\ (/\ InRefresh(p)
           /\ proc[p].pc = "rtg_revoke"
           /\ proc'[p].pc = "rtg_token_create")
          => UserActive(proc[p].token_payload.sub)
       /\ (/\ InGrant(p)
           /\ proc[p].pc = "acg_mark_as_used"
           /\ proc'[p].pc = "acg_token_create")
          => UserActive(proc[p].auth_code.user_id)]_vars

=============================================================================
